---- MODULE Spec2Model ----
(***************************************************************************)
(* Issue Workspace Orchestrator of vscode-multiroot-manager.               *)
(*                                                                         *)
(* The model covers the issue state store (services/stateManager.ts), the  *)
(* workspace directory helpers (services/workspaceService.ts), the git     *)
(* primitives and the IssueService orchestration (services/gitService.ts). *)
(*                                                                         *)
(* Conventions                                                             *)
(*   - a JavaScript value that may be undefined is an option: << >> is     *)
(*     undefined, << v >> is the value v;                                  *)
(*   - a string that is used as a path component is kept as a string and   *)
(*     split at the separator by SplitPath; a path is the sequence of its  *)
(*     segments, an absolute path starts with the segment "/";             *)
(*   - the empty string is "" and the empty path is << >>: both are falsy. *)
(*   - timestamps are the integers 1..MaxClock (new Date() reads clock).   *)
(*                                                                         *)
(* Environment                                                             *)
(*   - every git command may fail; createWorktree also fails when the      *)
(*     branch exists, the path is registered or the path is on disk;       *)
(*   - the writes of createIssue after its loop may fail; the directory    *)
(*     removals and the state write of deleteIssue and of the rollback     *)
(*     succeed;                                                            *)
(*   - an async method is a sequence of steps, one per await that can      *)
(*     suspend it; Spec runs one call at a time.                           *)
(***************************************************************************)
EXTENDS Integers, Sequences, FiniteSets, TLC

\* ------------------------------------------------------------------ bounds
MaxClock == 3
MaxFileLen == 2
MaxRepos == 2
MaxNamed == 3
MaxStatuses == 2

\* ----------------------------------------------------------------- options
None == << >>
Some(v) == << v >>
IsSome(o) == Len(o) > 0

\* JavaScript truthiness of an optional string / optional path / optional flag
TruthyStr(o) == IsSome(o) /\ o[1] # ""
TruthyPath(o) == IsSome(o) /\ Len(o[1]) > 0
TruthyBool(o) == IsSome(o) /\ o[1]

\* first truthy of two optional strings, else the default d   (a || b || d)
OrStr(a, b, d) == IF TruthyStr(a) THEN a[1] ELSE IF TruthyStr(b) THEN b[1] ELSE d

\* ------------------------------------------------------------------- paths
\* The strings of the model that contain a path separator, split at it.
SplitPath(s) ==
  CASE s = "" -> << >>
    [] s = "lib/api" -> << "lib", "api" >>
    [] s = "./A" -> << ".", "A" >>
    [] s = "A/B" -> << "A", "B" >>
    [] s = "acme/A" -> << "acme", "A" >>
    [] s = "acme/A.code-workspace" -> << "acme", "A.code-workspace" >>
    [] s = "B/../A" -> << "B", "..", "A" >>
    [] s = "../web2/A" -> << "..", "web2", "A" >>
    [] OTHER -> << s >>

RECURSIVE NormalizeSegs(_, _)
\* path.normalize on segments: "." is dropped, ".." removes the segment
\* before it (not the root, not another ".."), acc is the result so far.
NormalizeSegs(acc, rest) ==
  IF rest = << >> THEN acc
  ELSE LET s == Head(rest)
           t == Tail(rest)
       IN  CASE s = "." -> NormalizeSegs(acc, t)
             [] s = ".." ->
                  IF acc = << >> \/ acc[Len(acc)] = ".."
                    THEN NormalizeSegs(Append(acc, ".."), t)
                  ELSE IF acc = << "/" >> THEN NormalizeSegs(acc, t)
                  ELSE NormalizeSegs(SubSeq(acc, 1, Len(acc) - 1), t)
             [] OTHER -> NormalizeSegs(Append(acc, s), t)

\* path.join(a, b): empty parts are skipped, the result is normalized and
\* "." stands for the empty result.
PathJoin(a, b) ==
  LET n == NormalizeSegs(<< >>, a \o b)
  IN  IF n = << >> THEN << "." >> ELSE n

\* path.basename(p)
PathBasename(p) == IF p = << >> THEN "" ELSE p[Len(p)]

\* path.dirname(p)
PathDirname(p) ==
  IF Len(p) <= 1 THEN (IF p = << "/" >> THEN p ELSE << "." >>)
  ELSE SubSeq(p, 1, Len(p) - 1)

IsPrefix(p, q) == Len(p) <= Len(q) /\ SubSeq(q, 1, Len(p)) = p

\* --------------------------------------------------------------- sequences
SeqToSet(s) == { s[i] : i \in DOMAIN s }

RECURSIVE SeqsUpTo(_, _)
\* all sequences over S of length at most n
SeqsUpTo(S, n) ==
  IF n = 0 THEN { << >> }
  ELSE LET shorter == SeqsUpTo(S, n - 1)
       IN  shorter \cup { Append(s, x) : s \in shorter, x \in S }

\* ------------------------------------------------------------ program data
\* IssueStatus (models/types.ts)
IssueStatus == { "active", "pr_created", "merged", "closed" }

\* the configured workspace directory (ConfigManager.getWorkspaceDir)
WorkspaceRoot == << "/", "ws" >>

\* the one project of the model and the issue ids a user enters
ProjectId == "web"
IssueIds == { "A", "B" }

Timestamps == 1..MaxClock

\* ------------------------------------------------------------- state store
\* A raw record of issues.yaml: every key is optional; the legacy (CLI) keys
\* are project_id, workspace.path, repositories, created_at, updated_at.
RawIssue(id, title, description, projectId, project_id, status, workspaceDir, workspace_path, repos, repositories, createdAt, created_at, updatedAt, updated_at) ==
  [ id |-> id, title |-> title, description |-> description,
    projectId |-> projectId, project_id |-> project_id, status |-> status,
    workspaceDir |-> workspaceDir, workspace_path |-> workspace_path,
    repos |-> repos, repositories |-> repositories,
    createdAt |-> createdAt, created_at |-> created_at,
    updatedAt |-> updatedAt, updated_at |-> updated_at ]

\* a null entry of a "repositories" list (YAML "- ~")
NullEntry == [ null |-> TRUE ]

\* one entry of a legacy "repositories" list, mapped to a RepoState
normalizeRepo(repo, workspaceDir) ==
  LET name == OrStr(repo.name, None, "")
  IN  [ name |-> name,
        branch |-> OrStr(repo.branch, None, ""),
        worktreePath |-> IF TruthyPath(repo.worktreePath) THEN repo.worktreePath[1]
                         ELSE PathJoin(workspaceDir, SplitPath(name)),
        created |-> TruthyBool(repo.created),
        pushed |-> TruthyBool(repo.pushed) ]

\* a plausible slip: the directory is taken off the flat workspaceDir too
WorkspaceDirOfDirname(rawIssue) ==
  IF TruthyPath(rawIssue.workspaceDir) THEN PathDirname(rawIssue.workspaceDir[1])
  ELSE IF TruthyPath(rawIssue.workspace_path)
    THEN PathDirname(rawIssue.workspace_path[1])
  ELSE << >>

\* normalizeIssue, "Determine workspaceDir from different formats"
WorkspaceDirOf(rawIssue) ==
  IF TruthyPath(rawIssue.workspaceDir) THEN rawIssue.workspaceDir[1]
  ELSE IF TruthyPath(rawIssue.workspace_path)
    THEN PathDirname(rawIssue.workspace_path[1])
  ELSE << >>

\* normalizeIssue raises a TypeError: a record with an id whose "repositories"
\* list holds null (repo.name is read off null)
normalizeThrows(rawIssue) ==
  /\ TruthyStr(rawIssue.id)
  /\ IsSome(rawIssue.repositories)
  /\ \E i \in 1..Len(rawIssue.repositories[1]) : rawIssue.repositories[1][i] = NullEntry

\* a plausible slip: a record without id is kept, under the empty id
normalizeIssueKeepsIdless(rawIssue, now) ==
  Some([ id |-> OrStr(rawIssue.id, None, ""),
         title |-> rawIssue.title,
         description |-> rawIssue.description,
         projectId |-> OrStr(rawIssue.projectId, rawIssue.project_id, ""),
         status |-> OrStr(rawIssue.status, None, "active"),
         workspaceDir |-> WorkspaceDirOf(rawIssue),
         repos |-> IF IsSome(rawIssue.repos) THEN rawIssue.repos[1] ELSE << >>,
         createdAt |-> IF IsSome(rawIssue.createdAt) THEN rawIssue.createdAt[1] ELSE now,
         updatedAt |-> IF IsSome(rawIssue.updatedAt) THEN rawIssue.updatedAt[1] ELSE now ])

\* StateManager.normalizeIssue: None for a record without id, else the
\* canonical Issue; now is the value of new Date() at the time of the load.
normalizeIssue(rawIssue, now) ==
  IF ~TruthyStr(rawIssue.id) THEN None
  ELSE
    LET workspaceDir == WorkspaceDirOf(rawIssue)
        legacy == rawIssue.repositories
        repos ==
          IF IsSome(legacy)
            THEN [ i \in 1..Len(legacy[1]) |-> normalizeRepo(legacy[1][i], workspaceDir) ]
          ELSE IF IsSome(rawIssue.repos) THEN rawIssue.repos[1]
          ELSE << >>
    IN  Some([ id |-> rawIssue.id[1],
               title |-> rawIssue.title,
               description |-> rawIssue.description,
               projectId |-> OrStr(rawIssue.projectId, rawIssue.project_id, ""),
               status |-> OrStr(rawIssue.status, None, "active"),
               workspaceDir |-> workspaceDir,
               repos |-> repos,
               createdAt |-> IF IsSome(rawIssue.createdAt) THEN rawIssue.createdAt[1]
                             ELSE IF IsSome(rawIssue.created_at) THEN rawIssue.created_at[1]
                             ELSE now,
               updatedAt |-> IF IsSome(rawIssue.updatedAt) THEN rawIssue.updatedAt[1]
                             ELSE IF IsSome(rawIssue.updated_at) THEN rawIssue.updated_at[1]
                             ELSE now ])

\* the state file: absent, unparsable, parsed without an issues list, or a
\* list of raw records
AbsentFile == [ kind |-> "absent", issues |-> << >> ]
GarbageFile == [ kind |-> "unparsable", issues |-> << >> ]
NoListFile == [ kind |-> "nolist", issues |-> << >> ]
IssuesFile(raws) == [ kind |-> "issues", issues |-> raws ]

RECURSIVE normalizeAll(_, _)
\* data.issues.map(normalizeIssue).filter(i => i !== null)
normalizeAll(raws, now) ==
  IF raws = << >> THEN << >>
  ELSE normalizeIssue(Head(raws), now) \o normalizeAll(Tail(raws), now)

\* StateManager.loadIssues: an error raised while the records are normalized
\* is caught with the parse errors, and the result is empty
loadIssues(f, now) ==
  IF f.kind # "issues" THEN << >>
  ELSE IF \E i \in 1..Len(f.issues) : normalizeThrows(f.issues[i]) THEN << >>
  ELSE normalizeAll(f.issues, now)

\* yaml.stringify of a canonical Issue object: its own keys, undefined
\* title/description omitted, no legacy key
ToRaw(issue) ==
  RawIssue(Some(issue.id), issue.title, issue.description,
           Some(issue.projectId), None, Some(issue.status),
           Some(issue.workspaceDir), None, Some(issue.repos), None,
           Some(issue.createdAt), None, Some(issue.updatedAt), None)

\* StateManager.saveIssuesFile
saveIssuesFile(issues) ==
  IssuesFile([ i \in 1..Len(issues) |-> ToRaw(issues[i]) ])

\* a plausible slip: the filter that removes the prior record is missing
WithoutIdKeepsAll(issues, issueId) == issues

\* issues.filter(i => i.id !== issueId)
WithoutId(issues, issueId) ==
  LET keep(i) == i.id # issueId IN SelectSeq(issues, keep)

\* a plausible slip: the operands of the subtraction swapped (oldest first)
SortCompareAscending(a, b) == a.createdAt - b.createdAt

\* the comparator of saveIssue's sort puts a before b when it is negative:
\* new Date(b.createdAt) - new Date(a.createdAt)
SortCompare(a, b) == b.createdAt - a.createdAt

\* x inserted behind every element that does not have to come after it
InsertSorted(sorted, x) ==
  LET before == { k \in 0..Len(sorted) :
                    \A j \in 1..k : SortCompare(sorted[j], x) <= 0 }
      pos == CHOOSE k \in before : \A m \in before : m <= k
  IN  SubSeq(sorted, 1, pos) \o << x >> \o SubSeq(sorted, pos + 1, Len(sorted))

RECURSIVE SortIssues(_)
\* Array.prototype.sort (stable) with SortCompare
SortIssues(issues) ==
  IF issues = << >> THEN << >>
  ELSE InsertSorted(SortIssues(SubSeq(issues, 1, Len(issues) - 1)), issues[Len(issues)])

\* a plausible slip: the file is written from the new issue alone
saveIssueOverwrite(f, issue, now) == saveIssuesFile(<< issue >>)

\* a plausible slip: a state file that cannot be read is left as it is
saveIssueKeepsUnreadable(f, issue, now) ==
  IF f.kind \in { "unparsable", "nolist" } THEN f
  ELSE saveIssuesFile(SortIssues(Append(WithoutId(loadIssues(f, now), issue.id), issue)))

\* StateManager.saveIssue: the content written
saveIssue(f, issue, now) ==
  saveIssuesFile(SortIssues(Append(WithoutId(loadIssues(f, now), issue.id), issue)))

\* StateManager.deleteIssue: the content written
deleteIssue(f, issueId, now) ==
  saveIssuesFile(WithoutId(loadIssues(f, now), issueId))

\* a plausible slip: the first stored issue is taken, whatever its id
getIssueAny(f, issueId, now) ==
  IF loadIssues(f, now) = << >> THEN None ELSE Some(loadIssues(f, now)[1])

\* StateManager.getIssue: issues.find(i => i.id === issueId)
getIssue(f, issueId, now) ==
  LET issues == loadIssues(f, now)
      hits == { i \in 1..Len(issues) : issues[i].id = issueId }
  IN  IF hits = {} THEN None
      ELSE Some(issues[CHOOSE i \in hits : \A j \in hits : i <= j])

\* --------------------------------------------------------------- the state
VARIABLES
  clock,        \* the value new Date() returns
  file,         \* data/{project}/issues.yaml of the project
  st,           \* the last call of a StateManager method and what it saw
  project,      \* projects/{project}.yaml: None, or Some(repositories)
  dirs,         \* the directories that exist on disk
  plain,        \* the plain files that exist on disk
  worktrees,    \* per repository path: the registered worktree paths
  branches,     \* per repository path: the local branch names
  calls,        \* per flow of control: the IssueService call it runs
  found,        \* the result of the last findOrphanedIssues
  cleaned,      \* the result of the last cleanupOrphanedIssues
  made,         \* the issue directories createIssueDirectory has returned
  procs,        \* per orchestrator process: the StateManager write it runs
  named,        \* the applications of generateBranchName and their results
  descriptors,  \* the folder lists of the workspace descriptors written
  statuses      \* the applications of getBranchStatus and their outcomes

vars ==
  << clock, file, st, project, dirs, plain, worktrees, branches, calls, found, cleaned, made,
     procs, named, descriptors, statuses >>


\* {workspaceRoot}/{projectId}
ProjectWorkspaceDir(projectId) == PathJoin(WorkspaceRoot, SplitPath(projectId))

\* ------------------------------------------------- inputs of the store model
RepoStateOf(name, issueDir, created) ==
  [ name |-> name, branch |-> "feature/x",
    worktreePath |-> PathJoin(PathJoin(issueDir, << "acme" >>), SplitPath(name)),
    created |-> created, pushed |-> FALSE ]

SampleDir(id) == PathJoin(ProjectWorkspaceDir(ProjectId), SplitPath(id))

\* a canonical Issue value
CanonicalIssue(id, title, status, createdAt, updatedAt) ==
  [ id |-> id, title |-> title, description |-> None, projectId |-> ProjectId,
    status |-> status, workspaceDir |-> SampleDir(id),
    repos |-> << RepoStateOf("web", SampleDir(id), TRUE) >>,
    createdAt |-> createdAt, updatedAt |-> updatedAt ]

\* the canonical Issue values handed to saveIssue
IssueSamples ==
  { CanonicalIssue("A", None, "active", c, c) : c \in Timestamps }
    \cup { CanonicalIssue("B", Some(""), "merged", 1, MaxClock) }

\* the statuses handed to updateIssueStatus
StatusSamples == { "pr_created", "closed" }

\* an entry of a legacy "repositories" list: name and branch only
LegacyRepo(name) ==
  [ name |-> Some(name), branch |-> Some("feature/x"), worktreePath |-> None,
    created |-> Some(TRUE), pushed |-> None ]

\* a record as the CLI wrote it
LegacyRaw(id, repositories, created_at) ==
  RawIssue(id, Some("t"), None, None, Some(ProjectId), None, None,
           Some(SampleDir("A") \o << "A.code-workspace" >>), None,
           repositories, None, created_at, None, created_at)

\* the raw records a state file of the model holds before the first call
RawSamples ==
  { ToRaw(CanonicalIssue("A", None, "active", 1, 1)),
    LegacyRaw(Some("A"), Some(<< LegacyRepo("web"), LegacyRepo("lib/api") >>), Some(2)),
    LegacyRaw(Some("B"), Some(<< >>), None),
    LegacyRaw(None, None, Some(1)),
    [ ToRaw(CanonicalIssue("B", None, "closed", 2, 2))
        EXCEPT !.repositories = Some(<< LegacyRepo("api") >>), !.project_id = Some("old") ] }

\* the same, a record whose "repositories" list holds a null entry, and a
\* record whose canonical projectId and workspaceDir are empty strings
LoadSamples ==
  RawSamples
    \cup { LegacyRaw(Some("B"), Some(<< LegacyRepo("web"), NullEntry >>), Some(1)),
           [ ToRaw(CanonicalIssue("A", None, "active", 1, 1))
               EXCEPT !.projectId = Some(""), !.project_id = Some("old"),
                      !.workspaceDir = Some(<< >>),
                      !.workspace_path = Some(SampleDir("B") \o << "B.code-workspace" >>) ] }

LoadFiles ==
  { AbsentFile, GarbageFile, NoListFile }
    \cup { IssuesFile(raws) : raws \in SeqsUpTo(LoadSamples, MaxFileLen) }

AnyFiles ==
  { AbsentFile, GarbageFile, NoListFile }
    \cup { IssuesFile(raws) : raws \in SeqsUpTo(RawSamples, MaxFileLen) }

\* what the project's workspace directory holds before the first call:
\* sub-directories and plain files, by name
DiskSamples ==
  { [ d |-> {}, f |-> {} ], [ d |-> { "A", "C" }, f |-> { "F" } ] }

\* p and the directories above it
Ancestors(p) == { SubSeq(p, 1, k) : k \in 1..Len(p) }

DiskOf(sample) ==
  LET pw == ProjectWorkspaceDir(ProjectId)
  IN  [ dirs |-> UNION { Ancestors(pw \o << n >>) : n \in sample.d }
                   \cup (IF sample.f = {} THEN {} ELSE Ancestors(pw)),
        plain |-> { pw \o << n >> : n \in sample.f } ]

\* ---------------------------------------------------------- configuration
\* the repositories a projects/*.yaml file can list: name and local path
Repo(name, path) == [ name |-> name, path |-> path ]

RepoPaths == { "/r/web", "/r/api", "/r/lib" }

AllRepos == { Repo("web", "/r/web"), Repo("api", "/r/api"), Repo("lib/api", "/r/lib") }

\* Project.repositories: lists of repositories with distinct names, here the
\* first one to MaxRepos repositories of two listings
RepoListings ==
  { << Repo("web", "/r/web"), Repo("lib/api", "/r/lib"), Repo("api", "/r/api") >>,
    << Repo("lib/api", "/r/lib"), Repo("api", "/r/api"), Repo("web", "/r/web") >> }

ProjectSamples ==
  { SubSeq(rs, 1, n) : rs \in RepoListings, n \in { m \in 1..MaxRepos : m <= Cardinality(AllRepos) } }

\* ------------------------------------------------------------------ calls
Slots == { "c1" }

\* the local variables of a createIssue / deleteIssue call, where it stands
\* (pc), the GitService methods it has invoked (log), the errors its catch
\* blocks have swallowed and reported on the console (errors), the turn of
\* the creation loop that threw (failedAt, past the last turn for the writes
\* that follow the loop) and the number of times it has written the state
\* file (writes); condition is what the git commands of the current turn of
\* the creation loop find at the repository's path
Call(op, pc, issueId, repositories, fileBefore) ==
  [ op |-> op, pc |-> pc, issueId |-> issueId, repositories |-> repositories,
    i |-> 0, issueDir |-> << >>, branchName |-> "", worktreePath |-> << >>,
    createdWorktrees |-> << >>, repoStates |-> << >>, repoOrgs |-> << >>,
    error |-> "", issue |-> None, deleteBranches |-> FALSE,
    log |-> << >>, errors |-> << >>, failedAt |-> 0, writes |-> 0, condition |-> "",
    fileBefore |-> fileBefore ]

IdleCall == Call("idle", "idle", "", << >>, AbsentFile)

GitCall(cmd, repoPath, path, branch) ==
  [ cmd |-> cmd, repo |-> repoPath, path |-> path, branch |-> branch ]

\* st: the method, its issue id, the issue it saved, whether it wrote the
\* file, and what it returned
StoreCall(op, id, issue, wrote, ret) ==
  [ op |-> op, id |-> id, issue |-> issue, wrote |-> wrote, ret |-> ret ]

NoStoreCall == StoreCall("none", "", None, FALSE, None)

\* the orchestrator instances (ExtensionHost processes) that share the
\* configuration directory
Procs == { "p1", "p2" }

\* a saveIssue / deleteIssue of a process: where it stands (pc), the issue or
\* the id it was called with, and the content of the state file it has read
Proc(op, pc, id, issue, seen, at) ==
  [ op |-> op, pc |-> pc, id |-> id, issue |-> issue, seen |-> seen, at |-> at ]

IdleProc == Proc("none", "idle", "", None, AbsentFile, 0)

\* ------------------------------------------------------------------- Init
\* the state when the orchestrator is constructed, for the flows of control
\* that will call it
InitFlows(flows, f, repositories, disk) ==
  /\ clock = 1
  /\ file = f
  /\ st = NoStoreCall
  /\ project = Some(repositories)
  /\ dirs = disk.dirs
  /\ plain = disk.plain
  /\ worktrees = [ r \in RepoPaths |-> {} ]
  /\ branches = [ r \in RepoPaths |-> {} ]
  /\ calls = [ c \in flows |-> IdleCall ]
  /\ found = None
  /\ cleaned = None
  /\ made = {}
  /\ procs = [ p \in Procs |-> IdleProc ]
  /\ named = {}
  /\ descriptors = << >>
  /\ statuses = {}

InitWith(f, repositories, disk) == InitFlows(Slots, f, repositories, disk)

EmptyDisk == [ dirs |-> {}, plain |-> {} ]

\* the state file when the orchestrator is first called: none, or the record
\* of an issue whose workspace has since been deleted by hand
EarlierFiles ==
  { AbsentFile, saveIssuesFile(<< CanonicalIssue("B", None, "active", 1, 1) >>) }

\* one project, nothing on disk
Init == \E rs \in ProjectSamples, f \in EarlierFiles : InitWith(f, rs, EmptyDisk)

\* a fresh installation of the one-repository project
InitStore == InitWith(AbsentFile, << Repo("web", "/r/web") >>, EmptyDisk)

\* a state file and a workspace directory with any content
InitAnyFile ==
  \E f \in AnyFiles, sample \in DiskSamples :
    InitWith(f, << Repo("web", "/r/web") >>, DiskOf(sample))

\* ---------------------------------------------------- StateManager methods
\* time passes between calls
Tick ==
  /\ clock < MaxClock
  /\ \A c \in Slots : calls[c].pc \in { "idle", "returned", "raised" }
  /\ clock' = clock + 1
  /\ UNCHANGED << file, st, project, dirs, plain, worktrees, branches, calls, found, cleaned, made, procs, named, descriptors, statuses >>

\* stateManager.saveIssue(projectId, issue), called directly
SaveIssue(issue) ==
  /\ file' = saveIssue(file, issue, clock)
  /\ st' = StoreCall("saveIssue", issue.id, Some(issue), TRUE, None)
  /\ UNCHANGED << clock, project, dirs, plain, worktrees, branches, calls, found, cleaned, made, procs, named, descriptors, statuses >>

\* stateManager.deleteIssue(projectId, issueId), called directly
DeleteStoredIssue(issueId) ==
  /\ file' = deleteIssue(file, issueId, clock)
  /\ st' = StoreCall("deleteIssue", issueId, None, TRUE, None)
  /\ UNCHANGED << clock, project, dirs, plain, worktrees, branches, calls, found, cleaned, made, procs, named, descriptors, statuses >>

\* a plausible slip: updatedAt is left as it was
WithStatusKeepsTime(issue, status, now) == [ issue EXCEPT !.status = status ]

\* a plausible slip: the record is built anew and its repos are left out
WithStatusOnly(issue, status, now) ==
  [ issue EXCEPT !.status = status, !.updatedAt = now, !.repos = << >> ]

\* the record updateIssueStatus hands to saveIssue
WithStatus(issue, status, now) == [ issue EXCEPT !.status = status, !.updatedAt = now ]

\* stateManager.updateIssueStatus(projectId, issueId, status)
UpdateIssueStatus(issueId, status) ==
  LET issue == getIssue(file, issueId, clock)
  IN  /\ IF IsSome(issue)
           THEN /\ file' = saveIssue(file, WithStatus(issue[1], status, clock), clock)
                /\ st' = StoreCall("updateIssueStatus", issueId,
                                   Some(WithStatus(issue[1], status, clock)),
                                   TRUE, None)
           ELSE /\ file' = file
                /\ st' = StoreCall("updateIssueStatus", issueId, None,
                                   FALSE, None)
      /\ UNCHANGED << clock, project, dirs, plain, worktrees, branches, calls, found, cleaned, made, procs, named, descriptors, statuses >>

\* stateManager.getIssue(projectId, issueId)
GetIssue(issueId) ==
  /\ st' = StoreCall("getIssue", issueId, None, FALSE,
                     getIssue(file, issueId, clock))
  /\ UNCHANGED << clock, file, project, dirs, plain, worktrees, branches, calls, found, cleaned, made, procs, named, descriptors, statuses >>

\* stateManager.loadIssues(projectId), called directly
LoadIssues ==
  /\ st' = StoreCall("loadIssues", "", None, FALSE, loadIssues(file, clock))
  /\ UNCHANGED << clock, file, project, dirs, plain, worktrees, branches, calls, found, cleaned, made, procs, named, descriptors, statuses >>

\* ------------------------------------------- writes of several processes
\* the issues the processes save
RaceIssues ==
  { CanonicalIssue("A", None, "active", 1, 1), CanonicalIssue("B", Some(""), "merged", 1, 1) }

\* a plausible slip: the file is locked and read again when it is written
LoadedUnderLock(proc, current) == current

\* const issues = this.loadIssues(projectId): what the write is computed from
LoadedBy(proc, current) == proc.seen

\* saveIssue in process p reads the state file (fs.readFileSync in loadIssues)
ProcLoadForSave(p, issue) ==
  /\ procs[p].pc # "loaded"
  /\ procs' = [ procs EXCEPT ![p] = Proc("saveIssue", "loaded", issue.id, Some(issue), file, clock) ]
  /\ UNCHANGED << clock, file, st, project, dirs, plain, worktrees, branches, calls,
                  found, cleaned, made, named, descriptors, statuses >>

\* deleteIssue in process p reads the state file
ProcLoadForDelete(p, issueId) ==
  /\ procs[p].pc # "loaded"
  /\ procs' = [ procs EXCEPT ![p] = Proc("deleteIssue", "loaded", issueId, None, file, clock) ]
  /\ UNCHANGED << clock, file, st, project, dirs, plain, worktrees, branches, calls,
                  found, cleaned, made, named, descriptors, statuses >>

\* process p writes the state file (fs.writeFileSync in saveIssuesFile)
ProcWrite(p) ==
  LET proc == procs[p]
  IN  /\ proc.pc = "loaded"
      /\ file' = IF proc.op = "saveIssue"
                   THEN saveIssue(LoadedBy(proc, file), proc.issue[1], proc.at)
                   ELSE deleteIssue(LoadedBy(proc, file), proc.id, proc.at)
      /\ procs' = [ procs EXCEPT ![p].pc = "done" ]
      /\ UNCHANGED << clock, st, project, dirs, plain, worktrees, branches, calls,
                      found, cleaned, made, named, descriptors, statuses >>

\* ------------------------------------------------------- orphan detection
\* a plausible slip: entry.isDirectory() is not tested
SubDirNamesAnyEntry(dir) ==
  { p[Len(p)] : p \in { q \in dirs \cup plain : Len(q) = Len(dir) + 1 /\ IsPrefix(dir, q) } }

\* fs.readdirSync(dir, { withFileTypes: true }): the names of the entries
\* directly under dir that are directories
SubDirNames(dir) ==
  { p[Len(p)] : p \in { q \in dirs : Len(q) = Len(dir) + 1 /\ IsPrefix(dir, q) } }

\* IssueService.findOrphanedIssues: the names returned
findOrphanedIssues(projectId) ==
  LET projectWorkspaceDir == PathJoin(WorkspaceRoot, SplitPath(projectId))
      activeIssues == loadIssues(file, clock)
      activeIssueIds == { activeIssues[i].id : i \in 1..Len(activeIssues) }
  IN  IF projectWorkspaceDir \notin dirs THEN {}
      ELSE { name \in SubDirNames(projectWorkspaceDir) : name \notin activeIssueIds }

FindOrphanedIssues ==
  /\ found' = Some(findOrphanedIssues(ProjectId))
  /\ UNCHANGED << clock, file, st, project, dirs, plain, worktrees, branches, calls, cleaned, made, procs, named, descriptors, statuses >>

\* -------------------------------------------------------- disk primitives
\* fs.existsSync(p)
Exists(p) == p \in dirs \cup plain

\* what is left of a set of paths after fs.rmSync(p, { recursive, force })
RmTree(paths, p) == { q \in paths : ~IsPrefix(p, q) }

\* WorkspaceService.removeIssueDirectory on a disk that holds ds and ps:
\* what is left of paths
removeIssueDirectory(paths, ds, ps, issueDir) ==
  IF issueDir \in ds \cup ps THEN RmTree(paths, issueDir) ELSE paths

\* a plausible slip: the issue id is left out of the joined path
OrphanDirOfProject(workspaceDir, projectId, issueId) ==
  PathJoin(workspaceDir, SplitPath(projectId))

\* const issueDir = path.join(workspaceDir, projectId, issueId)
OrphanDir(workspaceDir, projectId, issueId) ==
  PathJoin(PathJoin(workspaceDir, SplitPath(projectId)), SplitPath(issueId))

RECURSIVE RemoveOrphans(_, _, _)
\* the loop of cleanupOrphanedIssues over the names left to remove: the
\* directories and files that remain, as [ dirs, plain ]
RemoveOrphans(names, ds, ps) ==
  IF names = {} THEN [ dirs |-> ds, plain |-> ps ]
  ELSE LET issueId == CHOOSE n \in names : TRUE
           issueDir == OrphanDir(WorkspaceRoot, ProjectId, issueId)
       IN  RemoveOrphans(names \ { issueId },
                         removeIssueDirectory(ds, ds, ps, issueDir),
                         removeIssueDirectory(ps, ds, ps, issueDir))

\* IssueService.cleanupOrphanedIssues(projectId)
CleanupOrphanedIssues ==
  LET orphaned == findOrphanedIssues(ProjectId)
      left == RemoveOrphans(orphaned, dirs, plain)
  IN  /\ found' = Some(orphaned)
      /\ dirs' = left.dirs
      /\ plain' = left.plain
      /\ cleaned' = Some(Cardinality(orphaned))
      /\ UNCHANGED << clock, file, st, project, worktrees, branches, calls, made, procs, named, descriptors, statuses >>

\* GitService.worktreeExists: fs.existsSync(path.join(worktreePath, '.git'))
worktreeExists(worktreePath) == (worktreePath \o << ".git" >>) \in plain

\* ------------------------------------------------------ naming and layout
\* a BranchNaming object: the pattern as its pieces, the separator optional
\* (a branch_naming of a project file may give a pattern only)
BranchNaming(pattern, separator) == [ pattern |-> pattern, separator |-> separator ]

\* the global default of ConfigManager.loadConfig
DefaultBranchNaming == BranchNaming(<< "feature/", "{issue_id}" >>, Some("-"))

RECURSIVE Concat(_)
Concat(pieces) == IF pieces = << >> THEN "" ELSE Head(pieces) \o Concat(Tail(pieces))

\* the strings of the model that contain whitespace, split at its runs
Words(issueId) ==
  CASE issueId = "fix bug" -> << "fix", "bug" >>
    [] issueId = "a  b c" -> << "a", "b", "c" >>
    [] OTHER -> << issueId >>

RECURSIVE Join(_, _)
Join(words, separator) ==
  IF Len(words) <= 1 THEN Concat(words)
  ELSE Head(words) \o separator \o Join(Tail(words), separator)

\* a value used as a replacement string: undefined becomes "undefined"
ToStr(o) == IF IsSome(o) THEN o[1] ELSE "undefined"

\* issueId.replace(/\s+/g, separator)
ReplaceWhitespace(issueId, separator) == Join(Words(issueId), ToStr(separator))

RECURSIVE ReplaceFirst(_, _, _)
\* String.replace(token, by) on a pattern given as its pieces: the first
\* occurrence of the token is replaced
ReplaceFirst(pattern, token, by) ==
  IF pattern = << >> THEN ""
  ELSE IF Head(pattern) = token THEN by \o Concat(Tail(pattern))
  ELSE Head(pattern) \o ReplaceFirst(Tail(pattern), token, by)

\* ConfigManager.generateBranchName
generateBranchName(issueId, naming) ==
  ReplaceFirst(naming.pattern, "{issue_id}", ReplaceWhitespace(issueId, naming.separator))

\* the branchNaming of a loaded project: projectData.branch_naming ||
\* this.config.branchNaming
ProjectNaming(override, global) == IF IsSome(override) THEN override[1] ELSE global

\* the issue ids, the global settings and the branch_naming entries of a
\* project file that generateBranchName is applied to
NamingIds == { "A", "fix bug", "a  b c" }
GlobalNamings == { DefaultBranchNaming, BranchNaming(<< "{issue_id}", "-wip" >>, Some("_")) }
NamingOverrides ==
  { None,
    Some(BranchNaming(<< "feature/", "{issue_id}" >>, None)),
    Some(BranchNaming(<< "bug/", "{issue_id}" >>, Some("."))) }

\* configManager.generateBranchName(issueId, project.branchNaming)
GenerateBranchName(issueId, override, global) ==
  /\ Cardinality(named) < MaxNamed
  /\ named' = named \cup
       { [ issueId |-> issueId, override |-> override, global |-> global,
           name |-> generateBranchName(issueId, ProjectNaming(override, global)) ] }
  /\ UNCHANGED << clock, file, st, project, dirs, plain, worktrees, branches, calls,
                  found, cleaned, made, procs, descriptors, statuses >>

\* WorkspaceService.createIssueDirectory: the path it computes
createIssueDirectory(workspaceDir, projectId, issueId) ==
  PathJoin(PathJoin(workspaceDir, SplitPath(projectId)), SplitPath(issueId))

\* the project ids and the issue ids createIssueDirectory is called with:
\* the issue id input accepts every string that is not blank
DirProjectIds == { "web", "web2" }
DirIssueIds == { "A", "./A", "A/B", "B/../A", "../web2/A" }

\* workspaceService.createIssueDirectory(workspaceDir, projectId, issueId)
CreateIssueDirectory(projectId, issueId) ==
  LET issueDir == createIssueDirectory(WorkspaceRoot, projectId, issueId)
  IN  /\ dirs' = dirs \cup Ancestors(issueDir)
      /\ made' = made \cup { [ projectId |-> projectId, issueId |-> issueId,
                                issueDir |-> issueDir ] }
      /\ UNCHANGED << clock, file, st, project, plain, worktrees, branches, calls,
                      found, cleaned, procs, named, descriptors, statuses >>

\* the organization getOrgFromRemote parses from the remote URL of a repository
OrgOf(repoPath) == IF repoPath = "/r/lib" THEN "tools" ELSE "acme"

\* a plausible slip: the organisation is left out of the worktree path
WorktreePathFlat(issueDir, org, name) == PathJoin(issueDir, SplitPath(name))

\* path.join(issueDir, org, repo.name)
WorktreePathOf(issueDir, org, name) ==
  PathJoin(PathJoin(issueDir, << org >>), SplitPath(name))

\* path.join(issueDir, `${issueId}.code-workspace`) and path.join(issueDir, '.claude.md')
WorkspaceFilePath(issueDir, issueId) == PathJoin(issueDir, SplitPath(issueId \o ".code-workspace"))
ContextFilePath(issueDir) == PathJoin(issueDir, << ".claude.md" >>)

\* repoOrgs?.get(repo.name): the map is given as the sequence of its set
\* calls, the last one for a name counts; undefined without a map or an entry
OrgGet(repoOrgs, name) ==
  IF ~IsSome(repoOrgs) THEN None
  ELSE LET hits == { k \in 1..Len(repoOrgs[1]) : repoOrgs[1][k].name = name }
       IN  IF hits = {} THEN None
           ELSE Some(repoOrgs[1][CHOOSE k \in hits : \A m \in hits : m <= k].org)

\* the first folder of every descriptor
RootFolder == [ path |-> << "." >>, name |-> << "Workspace Root" >> ]

\* a plausible slip: the organization is left out of the folder path
RepoFolderFlat(org, name) ==
  [ path |-> << "." >> \o SplitPath(name), name |-> SplitPath(name) ]

\* the folder of a repository, its path and name split at the separators:
\* ./{org}/{repo} when org is a non-empty string, else ./{repo}
RepoFolder(org, name) ==
  IF TruthyStr(org)
    THEN [ path |-> << ".", org[1] >> \o SplitPath(name), name |-> << org[1] >> \o SplitPath(name) ]
    ELSE [ path |-> << "." >> \o SplitPath(name), name |-> SplitPath(name) ]

\* WorkspaceService.generateWorkspace: the folders of the descriptor
generateWorkspace(repos, repoOrgs) ==
  << RootFolder >>
    \o [ i \in 1..Len(repos) |-> RepoFolder(OrgGet(repoOrgs, repos[i].name), repos[i].name) ]

\* fs.writeFileSync(workspaceFilePath, ...): the descriptors on a disk that
\* holds the files ps, after the write
WriteDescriptor(ds, ps, workspaceFilePath, folders) ==
  [ q \in ((DOMAIN ds) \cap ps) \cup { workspaceFilePath } |->
      IF q = workspaceFilePath THEN folders ELSE ds[q] ]

\* the maps of organizations generateWorkspace is called with for a list of
\* repositories: none, an empty one, one for the first repository, one for all
OrgMaps(repos) ==
  { None, Some(<< >>),
    Some(<< [ name |-> repos[1].name, org |-> OrgOf(repos[1].path) ] >>),
    Some([ i \in 1..Len(repos) |-> [ name |-> repos[i].name, org |-> OrgOf(repos[i].path) ] ]) }

\* workspaceService.generateWorkspace(issueDir, issueId, repos, repoOrgs),
\* called on the directory of an issue that is on disk
GenerateWorkspace(issueId, repos, repoOrgs) ==
  LET issueDir == createIssueDirectory(WorkspaceRoot, ProjectId, issueId)
      workspaceFilePath == WorkspaceFilePath(issueDir, issueId)
  IN  /\ \A c \in Slots : calls[c].pc \in { "idle", "returned", "raised" }
      /\ issueDir \in dirs
      /\ plain' = plain \cup { workspaceFilePath }
      /\ descriptors' = WriteDescriptor(descriptors, plain, workspaceFilePath,
                                        generateWorkspace(repos, repoOrgs))
      /\ UNCHANGED << clock, file, st, project, dirs, worktrees, branches, calls,
                      found, cleaned, made, procs, named, statuses >>

\* project.repositories.find(r => r.name === name)
FindRepo(repositories, name) ==
  LET hits == { k \in 1..Len(repositories) : repositories[k].name = name }
  IN  IF hits = {} THEN None
      ELSE Some(repositories[CHOOSE k \in hits : \A m \in hits : k <= m])

\* ------------------------------------------------------------ createIssue
Running(c) == calls[c].pc \notin { "idle", "returned", "raised" }

\* the calling environment starts a call when no call is in progress
MayStart(c) == \A d \in Slots : ~Running(d)

SetCall(c, call) == calls' = [ calls EXCEPT ![c] = call ]

\* a plausible slip: the operation is not awaited, and is recorded before
\* the ones that are under way
LoggedAhead(call, entry) == [ call EXCEPT !.log = << entry >> \o @ ]

\* the call has awaited one more GitService method
Logged(call, entry) == [ call EXCEPT !.log = Append(@, entry) ]

\* a plausible slip: the error is not thrown again and the promise of the
\* call never settles
LeftPending(call) == [ call EXCEPT !.pc = "pending" ]

\* throw error, at the end of the catch block: the promise of the call is
\* rejected
Rethrown(call) == [ call EXCEPT !.pc = "raised" ]

\* the catch block is entered with the error: without created worktrees the
\* issue directory is removed and the error raised at once, else the
\* rollback loop starts
Catch(c, call, error) ==
  LET thrown == [ call EXCEPT !.error = error, !.failedAt = call.i ]
  IN  IF call.createdWorktrees = << >>
        THEN /\ SetCall(c, Rethrown(thrown))
             /\ dirs' = removeIssueDirectory(dirs, dirs, plain, call.issueDir)
             /\ plain' = removeIssueDirectory(plain, dirs, plain, call.issueDir)
        ELSE /\ SetCall(c, [ thrown EXCEPT !.pc = "rollback", !.i = 1 ])
             /\ UNCHANGED << dirs, plain, made, procs, named, descriptors, statuses >>

\* a plausible slip: the lookup of a stored issue is left out
existingIssueIgnored(f, issueId, now) == None

\* const existingIssue = this.stateManager.getIssue(projectId, issueId)
existingIssue(f, issueId, now) == getIssue(f, issueId, now)

\* a plausible slip: the state is consulted before the project is resolved
CreateEntryStateFirst(projectFound, stored) ==
  IF stored THEN "existing" ELSE IF ~projectFound THEN "ProjectNotFound" ELSE "create"

\* the first statements of createIssue: the project is resolved, then the
\* state is consulted
CreateEntry(projectFound, stored) ==
  IF ~projectFound THEN "ProjectNotFound" ELSE IF stored THEN "existing" ELSE "create"

\* createIssue up to its first await: project lookup, short-circuit on a
\* stored issue, issue directory, branch name
EnterCreateIssue(c, issueId) ==
  /\ LET fresh == Call("createIssue", "getOrg", issueId,
                       IF IsSome(project) THEN project[1] ELSE << >>, file)
         existing == existingIssue(file, issueId, clock)
         issueDir == createIssueDirectory(WorkspaceRoot, ProjectId, issueId)
         entry == CreateEntry(IsSome(project), IsSome(existing))
     IN  IF entry = "ProjectNotFound"
           THEN /\ SetCall(c, [ fresh EXCEPT !.pc = "raised", !.error = "ProjectNotFound" ])
                /\ UNCHANGED dirs
         ELSE IF entry = "existing"
           THEN /\ SetCall(c, [ fresh EXCEPT !.pc = "returned", !.issue = existing ])
                /\ UNCHANGED dirs
         ELSE /\ SetCall(c, [ fresh EXCEPT
                                !.i = 1, !.issueDir = issueDir,
                                !.branchName = generateBranchName(issueId, DefaultBranchNaming) ])
              /\ dirs' = dirs \cup Ancestors(issueDir)
  /\ UNCHANGED << clock, file, st, project, plain, worktrees, branches, found, cleaned, made, procs, named, descriptors, statuses >>

\* createIssue called when no call is in progress
StartCreateIssue(c, issueId) == MayStart(c) /\ EnterCreateIssue(c, issueId)

\* what a repository path can hold: a repository with a work tree, a
\* repository without one (bare, or its work tree unreadable), no repository
RepoConditions == { "usable", "noWorkTree", "notRepository" }

\* git remote get-url <remote> runs (getOrgFromRemote has no catch)
RemoteUrlReadable(condition) == condition # "notRepository"

\* git status can run, so that isValidRepository can return true
StatusRuns(condition) == condition = "usable"

\* await gitService.getOrgFromRemote(repo.path, repo.remote)
CreateGetOrg(c) ==
  LET call == calls[c]
      repo == call.repositories[call.i]
  IN  /\ call.op = "createIssue" /\ call.pc = "getOrg"
      /\ \E condition \in RepoConditions, ok \in BOOLEAN :
           LET invoked == [ Logged(call, GitCall("getOrgFromRemote", repo.path, << >>, ""))
                              EXCEPT !.condition = condition ]
           IN
           IF ~RemoteUrlReadable(condition) THEN Catch(c, invoked, "GitOperationError")
           ELSE IF ok
             THEN /\ SetCall(c, [ invoked EXCEPT
                                    !.pc = "validate",
                                    !.repoOrgs = Append(@, [ name |-> repo.name, org |-> OrgOf(repo.path) ]),
                                    !.worktreePath = WorktreePathOf(call.issueDir, OrgOf(repo.path), repo.name) ])
                  /\ UNCHANGED << dirs, plain, made, procs, named, descriptors, statuses >>
             ELSE Catch(c, invoked, "RemoteParseError")
      /\ UNCHANGED << clock, file, st, project, worktrees, branches, found, cleaned, made, procs, named, descriptors, statuses >>

\* await gitService.isValidRepository(repo.path)
CreateValidate(c) ==
  LET call == calls[c]
      repo == call.repositories[call.i]
      invoked == Logged(call, GitCall("isValidRepository", repo.path, << >>, ""))
  IN  /\ call.op = "createIssue" /\ call.pc = "validate"
      /\ \E isValid \in { b \in BOOLEAN : b => StatusRuns(call.condition) } :
           IF isValid
             THEN /\ SetCall(c, [ invoked EXCEPT !.pc = "createWorktree" ])
                  /\ UNCHANGED << dirs, plain, made, procs, named, descriptors, statuses >>
             ELSE Catch(c, invoked, "InvalidRepository")
      /\ UNCHANGED << clock, file, st, project, worktrees, branches, found, cleaned, made, procs, named, descriptors, statuses >>

\* git worktree add -b <branch> <path> origin/<base> can succeed
\* git refuses a branch name one of whose components begins with a dot
ValidBranchName(branchName) == branchName \notin { "feature/.", "feature/.." }

CanAddWorktree(repoPath, worktreePath, branchName) ==
  /\ ValidBranchName(branchName)
  /\ branchName \notin branches[repoPath]
  /\ worktreePath \notin worktrees[repoPath]
  /\ ~Exists(worktreePath)

\* await gitService.createWorktree(repo.path, worktreePath, branchName, base)
CreateWorktree(c) ==
  LET call == calls[c]
      repo == call.repositories[call.i]
      invoked == Logged(call, GitCall("createWorktree", repo.path, call.worktreePath, call.branchName))
  IN  /\ call.op = "createIssue" /\ call.pc = "createWorktree"
      /\ \E ok \in BOOLEAN :
           IF ok /\ CanAddWorktree(repo.path, call.worktreePath, call.branchName)
             THEN /\ SetCall(c, [ invoked EXCEPT
                                    !.pc = "status",
                                    !.createdWorktrees = Append(@, call.worktreePath) ])
                  /\ worktrees' = [ worktrees EXCEPT ![repo.path] = @ \cup { call.worktreePath } ]
                  /\ branches' = [ branches EXCEPT ![repo.path] = @ \cup { call.branchName } ]
                  /\ dirs' = dirs \cup Ancestors(call.worktreePath)
                  /\ plain' = plain \cup { call.worktreePath \o << ".git" >> }
             ELSE /\ Catch(c, invoked, "GitOperationError")
                  /\ UNCHANGED << worktrees, branches, made, procs, named, descriptors, statuses >>
      /\ UNCHANGED << clock, file, st, project, found, cleaned, made, procs, named, descriptors, statuses >>

\* GitService.getBranchStatus: { created, pushed }
BranchStatuses(repoPath, branchName) ==
  { s \in [ created : BOOLEAN, pushed : BOOLEAN ] :
      /\ s.created => branchName \in branches[repoPath]
      /\ s.pushed => s.created }

\* the Issue object createIssue builds
NewIssue(call, repoStates, now) ==
  [ id |-> call.issueId, title |-> None, description |-> None,
    projectId |-> ProjectId, status |-> "active", workspaceDir |-> call.issueDir,
    repos |-> repoStates, createdAt |-> now, updatedAt |-> now ]

\* the outcomes of the rest of the try block: the write of the descriptor,
\* of the context note or of the state file throws, or none does
TailOutcomes == { "ok", "descriptor", "note", "save" }

\* the files generateWorkspace and generateClaudeContext have written
WrittenFiles(outcome, issueDir, issueId) ==
  CASE outcome = "descriptor" -> {}
    [] outcome = "note" -> { WorkspaceFilePath(issueDir, issueId) }
    [] OTHER -> { WorkspaceFilePath(issueDir, issueId), ContextFilePath(issueDir) }

\* a plausible slip: the state record is saved before the descriptor and the
\* context note are written
SavesIssueFirst(outcome) == outcome # "save"

\* stateManager.saveIssue is the last statement of the try block: the state
\* file is written when nothing before it has thrown
SavesIssue(outcome) == outcome = "ok"

\* fs.writeFileSync creates no directory: the descriptor and the context
\* note can be written when the directories that are to hold them exist
Writable(call) ==
  /\ call.issueDir \in dirs
  /\ PathDirname(WorkspaceFilePath(call.issueDir, call.issueId)) \in dirs

\* a plausible slip: the state file is loaded when the call starts and the
\* record is merged into that copy
LoadedAtStart(call, current) == call.fileBefore

\* saveIssue loads the state file in the statement that writes it
LoadedForSave(call, current) == current

\* after the loop, without suspension: descriptor, context note, state
\* record; a write that throws enters the catch block
Finalize(c, call) ==
  \E outcome \in TailOutcomes :
    LET issue == NewIssue(call, call.repoStates, clock)
        saved == IF SavesIssue(outcome) THEN [ call EXCEPT !.writes = @ + 1 ] ELSE call
        written == IF Writable(call)
                     THEN WrittenFiles(outcome, call.issueDir, call.issueId)
                     ELSE {}
        ps == plain \cup written
    IN  /\ IF SavesIssue(outcome)
             THEN /\ file' = saveIssue(LoadedForSave(call, file), issue, clock)
                  /\ st' = StoreCall("saveIssue", issue.id, Some(issue), TRUE, None)
             ELSE UNCHANGED << file, st >>
        /\ descriptors' =
             IF WorkspaceFilePath(call.issueDir, call.issueId) \in written
               THEN WriteDescriptor(descriptors, plain,
                                    WorkspaceFilePath(call.issueDir, call.issueId),
                                    generateWorkspace(call.repositories, Some(call.repoOrgs)))
               ELSE descriptors
        /\ IF outcome = "ok" /\ Writable(call)
             THEN /\ SetCall(c, [ saved EXCEPT !.pc = "returned", !.issue = Some(issue) ])
                  /\ plain' = ps
                  /\ UNCHANGED dirs
             ELSE LET thrown == [ saved EXCEPT !.error = "WriteError",
                                               !.failedAt = Len(call.repositories) + 1 ]
                  IN  IF call.createdWorktrees = << >>
                        THEN /\ SetCall(c, Rethrown(thrown))
                             /\ dirs' = removeIssueDirectory(dirs, dirs, ps, call.issueDir)
                             /\ plain' = removeIssueDirectory(ps, dirs, ps, call.issueDir)
                        ELSE /\ SetCall(c, [ thrown EXCEPT !.pc = "rollback", !.i = 1 ])
                             /\ plain' = ps
                             /\ UNCHANGED dirs

\* await gitService.getBranchStatus(repo.path, branchName), the RepoState,
\* and after the last repository the rest of the try block
CreateStatus(c) ==
  LET call == calls[c]
      repo == call.repositories[call.i]
      invoked == Logged(call, GitCall("getBranchStatus", repo.path, << >>, call.branchName))
  IN  /\ call.op = "createIssue" /\ call.pc = "status"
      /\ \E status \in BranchStatuses(repo.path, call.branchName) :
           LET pushed == [ invoked EXCEPT
                             !.repoStates = Append(@, [ name |-> repo.name,
                                                        branch |-> call.branchName,
                                                        worktreePath |-> call.worktreePath,
                                                        created |-> status.created,
                                                        pushed |-> status.pushed ]) ]
           IN  IF call.i < Len(call.repositories)
                 THEN /\ SetCall(c, [ pushed EXCEPT !.pc = "getOrg", !.i = @ + 1 ])
                      /\ UNCHANGED << file, st, dirs, plain, descriptors, statuses >>
                 ELSE Finalize(c, pushed)
      /\ UNCHANGED << clock, project, worktrees, branches, found, cleaned, made, procs, named,
                      statuses >>

\* git worktree remove <path> --force can succeed
CanRemoveWorktree(repoPath, worktreePath) == worktreePath \in worktrees[repoPath]

\* one turn of the rollback loop: the repository is looked up by the last
\* segment of the worktree path, removeWorktree is awaited when one is found
\* and its failure is swallowed; after the last turn the issue directory is
\* removed and the error is thrown again
CreateRollback(c) ==
  LET call == calls[c]
      worktreePath == call.createdWorktrees[call.i]
      repo == FindRepo(call.repositories, PathBasename(worktreePath))
      invoked == IF IsSome(repo)
                   THEN Logged(call, GitCall("removeWorktree", repo[1].path, worktreePath, ""))
                   ELSE call
      last == call.i = Len(call.createdWorktrees)
  IN  /\ call.op = "createIssue" /\ call.pc = "rollback"
      /\ \E ok \in BOOLEAN :
           LET removed == IsSome(repo) /\ ok /\ CanRemoveWorktree(repo[1].path, worktreePath)
               turned == IF IsSome(repo) /\ ~removed
                           THEN [ invoked EXCEPT !.errors = Append(@, worktreePath) ]
                           ELSE invoked
               dirs1 == IF removed THEN RmTree(dirs, worktreePath) ELSE dirs
               plain1 == IF removed THEN RmTree(plain, worktreePath) ELSE plain
           IN  /\ SetCall(c, IF last THEN Rethrown(turned)
                              ELSE [ turned EXCEPT !.i = @ + 1 ])
               /\ worktrees' = IF removed
                                 THEN [ worktrees EXCEPT ![repo[1].path] = @ \ { worktreePath } ]
                                 ELSE worktrees
               /\ dirs' = IF last THEN removeIssueDirectory(dirs1, dirs1, plain1, call.issueDir)
                          ELSE dirs1
               /\ plain' = IF last THEN removeIssueDirectory(plain1, dirs1, plain1, call.issueDir)
                           ELSE plain1
      /\ UNCHANGED << clock, file, st, project, branches, found, cleaned, made, procs, named, descriptors, statuses >>

\* ------------------------------------------------------------ deleteIssue
\* the next recorded RepoState, from index from on, whose repository is still
\* in the project (the others are skipped by continue); past the end if none
NextRepoIndex(repos, repositories, from) ==
  LET left == { k \in from..Len(repos) : IsSome(FindRepo(repositories, repos[k].name)) }
  IN  IF left = {} THEN Len(repos) + 1
      ELSE CHOOSE k \in left : \A m \in left : k <= m

\* the loop goes on with the next repository; after the last one, without
\* suspension, the workspace directory and the state record are removed.
\* ds and ps are the directories and files the step has left on disk.
DeleteNext(c, call, ds, ps) ==
  LET issue == call.issue[1]
      k == NextRepoIndex(issue.repos, call.repositories, call.i + 1)
  IN  IF k <= Len(issue.repos)
        THEN /\ SetCall(c, [ call EXCEPT !.pc = "rmWorktree", !.i = k ])
             /\ dirs' = ds
             /\ plain' = ps
             /\ UNCHANGED << file, st, made, procs, named, descriptors, statuses >>
        ELSE /\ SetCall(c, [ call EXCEPT !.pc = "returned", !.writes = @ + 1 ])
             /\ dirs' = removeIssueDirectory(ds, ds, ps, issue.workspaceDir)
             /\ plain' = removeIssueDirectory(ps, ds, ps, issue.workspaceDir)
             /\ file' = deleteIssue(file, call.issueId, clock)
             /\ st' = StoreCall("deleteIssue", call.issueId, None, TRUE, None)

\* a plausible slip: the error of a turn is thrown to the caller
DeleteRethrow(c, call, ds, ps) ==
  /\ SetCall(c, [ call EXCEPT !.pc = "raised", !.error = "GitOperationError" ])
  /\ dirs' = ds
  /\ plain' = ps
  /\ UNCHANGED << file, st, made, procs, named, descriptors, statuses >>

\* the catch block of a turn of the loop: the error is reported on the
\* console and the loop goes on
DeleteCaught(c, call, ds, ps) ==
  DeleteNext(c, [ call EXCEPT !.errors = Append(@, call.issue[1].repos[call.i].name) ], ds, ps)

\* deleteIssue up to its first await: issue and project lookup
StartDeleteIssue(c, issueId, deleteBranches) ==
  /\ MayStart(c)
  /\ LET issue == getIssue(file, issueId, clock)
         fresh == [ Call("deleteIssue", "rmWorktree", issueId,
                         IF IsSome(project) THEN project[1] ELSE << >>, file)
                      EXCEPT !.deleteBranches = deleteBranches, !.issue = issue ]
     IN  IF ~IsSome(issue)
           THEN /\ SetCall(c, [ fresh EXCEPT !.pc = "raised", !.error = "IssueNotFound" ])
                /\ UNCHANGED << file, st, dirs, plain, made, procs, named, descriptors, statuses >>
         ELSE IF ~IsSome(project)
           THEN /\ SetCall(c, [ fresh EXCEPT !.pc = "raised", !.error = "ProjectNotFound" ])
                /\ UNCHANGED << file, st, dirs, plain, made, procs, named, descriptors, statuses >>
         ELSE DeleteNext(c, fresh, dirs, plain)
  /\ UNCHANGED << clock, project, worktrees, branches, found, cleaned, made, procs, named, descriptors, statuses >>

\* a plausible slip: the option is not consulted
DeletesBranchesAlways(call) == TRUE

\* if (deleteBranches), with const { deleteBranches = false } = options
DeletesBranches(call) == call.deleteBranches

\* the first half of a turn of the loop: await worktreeExists, await
\* removeWorktree when the worktree is on disk; a throw ends the turn
DeleteRemoveWorktree(c) ==
  LET call == calls[c]
      repoState == call.issue[1].repos[call.i]
      repo == FindRepo(call.repositories, repoState.name)[1]
      exists == worktreeExists(repoState.worktreePath)
      checked == Logged(call, GitCall("worktreeExists", repo.path, repoState.worktreePath, ""))
      invoked == IF exists
                   THEN Logged(checked, GitCall("removeWorktree", repo.path, repoState.worktreePath, ""))
                   ELSE checked
  IN  /\ call.op = "deleteIssue" /\ call.pc = "rmWorktree"
      /\ \E ok \in BOOLEAN :
           LET removed == exists /\ ok /\ CanRemoveWorktree(repo.path, repoState.worktreePath)
               thrown == exists /\ ~removed
               ds == IF removed THEN RmTree(dirs, repoState.worktreePath) ELSE dirs
               ps == IF removed THEN RmTree(plain, repoState.worktreePath) ELSE plain
           IN  /\ worktrees' = IF removed
                                 THEN [ worktrees EXCEPT ![repo.path] = @ \ { repoState.worktreePath } ]
                                 ELSE worktrees
               /\ IF thrown THEN DeleteCaught(c, invoked, ds, ps)
                  ELSE IF DeletesBranches(call)
                    THEN /\ SetCall(c, [ invoked EXCEPT !.pc = "rmBranch" ])
                         /\ dirs' = ds
                         /\ plain' = ps
                         /\ UNCHANGED << file, st, made, procs, named, descriptors, statuses >>
                  ELSE DeleteNext(c, invoked, ds, ps)
      /\ UNCHANGED << clock, project, branches, found, cleaned, made, procs, named, descriptors, statuses >>

\* the second half, when deleteBranches is set: await branchExists, await
\* deleteBranch(repo.path, branch, true) when the branch exists
DeleteBranch(c) ==
  LET call == calls[c]
      repoState == call.issue[1].repos[call.i]
      repo == FindRepo(call.repositories, repoState.name)[1]
      checked == Logged(call, GitCall("branchExists", repo.path, << >>, repoState.branch))
  IN  /\ call.op = "deleteIssue" /\ call.pc = "rmBranch"
      /\ \E exists \in BOOLEAN, ok \in BOOLEAN :
           /\ exists => repoState.branch \in branches[repo.path]
           /\ branches' = IF exists /\ ok
                            THEN [ branches EXCEPT ![repo.path] = @ \ { repoState.branch } ]
                            ELSE branches
           /\ IF exists
                THEN LET invoked == Logged(checked, GitCall("deleteBranch", repo.path, << >>,
                                                            repoState.branch))
                     IN  IF ok THEN DeleteNext(c, invoked, dirs, plain)
                         ELSE DeleteCaught(c, invoked, dirs, plain)
                ELSE DeleteNext(c, checked, dirs, plain)
      /\ UNCHANGED << clock, project, worktrees, found, cleaned, made, procs, named, descriptors, statuses >>

\* ------------------------------------------------------------ environment
\* the project definition file is deleted (ProjectManager.deleteProject)
DeleteProject ==
  /\ IsSome(project)
  /\ \A c \in Slots : ~Running(c)
  /\ project' = None
  /\ UNCHANGED << clock, file, st, dirs, plain, worktrees, branches, calls, found, cleaned, made, procs, named, descriptors, statuses >>

\* the repositories of the project are replaced (ProjectManager.updateProject)
UpdateProject(repositories) ==
  /\ IsSome(project)
  /\ project[1] # repositories
  /\ \A c \in Slots : ~Running(c)
  /\ project' = Some(repositories)
  /\ UNCHANGED << clock, file, st, dirs, plain, worktrees, branches, calls, found, cleaned, made, procs, named, descriptors, statuses >>

\* ---------------------------------------------------------- specifications
NextStore ==
  \/ Tick
  \/ \E issue \in IssueSamples : SaveIssue(issue)
  \/ \E id \in IssueIds : DeleteStoredIssue(id)
  \/ \E id \in IssueIds, s \in StatusSamples : UpdateIssueStatus(id, s)
  \/ \E id \in IssueIds : GetIssue(id)
  \/ FindOrphanedIssues

\* the issue ids createIssue is called with; deleteIssue is called with
\* every id of IssueIds, stored or not
CreateIds == { "A" }

Next ==
  \/ Tick
  \/ \E c \in Slots, id \in CreateIds : StartCreateIssue(c, id)
  \/ \E c \in Slots : CreateGetOrg(c)
  \/ \E c \in Slots : CreateValidate(c)
  \/ \E c \in Slots : CreateWorktree(c)
  \/ \E c \in Slots : CreateStatus(c)
  \/ \E c \in Slots : CreateRollback(c)
  \/ \E c \in Slots, id \in IssueIds, deleteBranches \in BOOLEAN :
       StartDeleteIssue(c, id, deleteBranches)
  \/ \E c \in Slots : DeleteRemoveWorktree(c)
  \/ \E c \in Slots : DeleteBranch(c)
  \/ DeleteProject

\* the orchestrator, one call at a time, from a fresh installation
Spec == Init /\ [][Next]_vars

\* no createIssue has created a branch yet
NoBranchYet == \A r \in RepoPaths : branches[r] = {}

\* the life of an issue record: created by createIssue (called until it has
\* created a worktree), its status updated and records deleted from the
\* state between calls, while the repositories of the project change
NextLife ==
  \/ \E c \in Slots, id \in CreateIds : NoBranchYet /\ StartCreateIssue(c, id)
  \/ \E c \in Slots : CreateGetOrg(c)
  \/ \E c \in Slots : CreateValidate(c)
  \/ \E c \in Slots : CreateWorktree(c)
  \/ \E c \in Slots : CreateStatus(c)
  \/ \E c \in Slots : CreateRollback(c)
  \/ \E id \in IssueIds : (\A c \in Slots : ~Running(c)) /\ DeleteStoredIssue(id)
  \/ \E id \in IssueIds, s \in StatusSamples :
       (\A c \in Slots : ~Running(c)) /\ UpdateIssueStatus(id, s)
  \/ \E rs \in ProjectSamples : UpdateProject(rs)

SpecLife == Init /\ [][NextLife]_vars

\* createIssueDirectory applied to project ids and issue ids
NextDirectory ==
  \E projectId \in DirProjectIds, issueId \in DirIssueIds :
    CreateIssueDirectory(projectId, issueId)

SpecDirectory == InitStore /\ [][NextDirectory]_vars

\* the read path of the store over any state file
InitLoad == \E f \in LoadFiles : InitWith(f, << Repo("web", "/r/web") >>, EmptyDisk)

NextLoad ==
  \/ Tick
  \/ LoadIssues
  \/ \E id \in IssueIds : GetIssue(id)

SpecLoad == InitLoad /\ [][NextLoad]_vars

\* the store used from a fresh installation
SpecStore == InitStore /\ [][NextStore]_vars

\* the store and the orphan detection on any state file and workspace directory
SpecAnyFile == InitAnyFile /\ [][NextStore]_vars

\* the orphan reconciliation on any state file and workspace directory, with
\* records saved and deleted in between
NextCleanup ==
  \/ FindOrphanedIssues
  \/ CleanupOrphanedIssues
  \/ \E issue \in IssueSamples : SaveIssue(issue)
  \/ \E id \in IssueIds : DeleteStoredIssue(id)

SpecCleanup == InitAnyFile /\ [][NextCleanup]_vars

\* the time stamps a raw record carries
StampsOf(raw) ==
  { o[1] : o \in { x \in { raw.createdAt, raw.created_at, raw.updatedAt, raw.updated_at } :
                     IsSome(x) } }

\* the state files none of whose records is stamped later than the time of
\* the first call (new Date() never runs backwards)
PastFiles ==
  { f \in AnyFiles : \A i \in 1..Len(f.issues) : \A t \in StampsOf(f.issues[i]) : t <= 1 }

InitStatus == \E f \in PastFiles : InitWith(f, << Repo("web", "/r/web") >>, EmptyDisk)

\* the status of the records of a state file updated over time, next to
\* createIssue
NextStatus ==
  \/ Tick
  \/ \E id \in IssueIds, s \in StatusSamples :
       (\A c \in Slots : ~Running(c)) /\ UpdateIssueStatus(id, s)
  \/ \E c \in Slots, id \in CreateIds : NoBranchYet /\ StartCreateIssue(c, id)
  \/ \E c \in Slots : CreateGetOrg(c)
  \/ \E c \in Slots : CreateValidate(c)
  \/ \E c \in Slots : CreateWorktree(c)
  \/ \E c \in Slots : CreateStatus(c)
  \/ \E c \in Slots : CreateRollback(c)

SpecStatus == InitStatus /\ [][NextStatus]_vars

\* two orchestrator processes write the state file of one project
NextRace ==
  \/ \E p \in Procs, issue \in RaceIssues : ProcLoadForSave(p, issue)
  \/ \E p \in Procs, id \in IssueIds : ProcLoadForDelete(p, id)
  \/ \E p \in Procs : ProcWrite(p)

SpecRace == Init /\ [][NextRace]_vars

\* generateBranchName applied to issue ids under global and project settings
NextNaming ==
  \E issueId \in NamingIds, override \in NamingOverrides, global \in GlobalNamings :
    GenerateBranchName(issueId, override, global)

SpecNaming == InitStore /\ [][NextNaming]_vars

\* createIssue (called until it has created a worktree) and the descriptor
\* written again afterwards
NextWorkspace ==
  \/ \E issueId \in CreateIds, repos \in ProjectSamples :
       \E repoOrgs \in OrgMaps(repos) : GenerateWorkspace(issueId, repos, repoOrgs)
  \/ \E c \in Slots, id \in CreateIds : NoBranchYet /\ StartCreateIssue(c, id)
  \/ \E c \in Slots : CreateGetOrg(c)
  \/ \E c \in Slots : CreateValidate(c)
  \/ \E c \in Slots : CreateWorktree(c)
  \/ \E c \in Slots : CreateStatus(c)
  \/ \E c \in Slots : CreateRollback(c)

SpecWorkspace == Init /\ [][NextWorkspace]_vars

\* a call that is suspended at an await goes on: every git invocation
\* returns or raises, and the event loop resumes the call
CallStep ==
  \E c \in Slots :
    \/ CreateGetOrg(c)
    \/ CreateValidate(c)
    \/ CreateWorktree(c)
    \/ CreateStatus(c)
    \/ CreateRollback(c)
    \/ DeleteRemoveWorktree(c)
    \/ DeleteBranch(c)

\* createIssue and deleteIssue calls, one after the other
NextRun ==
  \/ \E c \in Slots, id \in CreateIds : StartCreateIssue(c, id)
  \/ \E c \in Slots, id \in IssueIds, deleteBranches \in BOOLEAN :
       StartDeleteIssue(c, id, deleteBranches)
  \/ CallStep

\* a project of two repositories, the second with a separator in its name
InitRun ==
  \E f \in EarlierFiles :
    InitWith(f, << Repo("web", "/r/web"), Repo("lib/api", "/r/lib") >>, EmptyDisk)

\* the calls under the assumption that no git invocation hangs
SpecRun == InitRun /\ [][NextRun]_vars /\ WF_vars(CallStep)

\* ============================================================= properties
IdsOf(issues) == { issues[i].id : i \in 1..Len(issues) }

StoredIssues == loadIssues(file, clock)

NoDuplicateIds(issues) ==
  \A i, j \in 1..Len(issues) : issues[i].id = issues[j].id => i = j

NewestFirst(issues) ==
  \A i, j \in 1..Len(issues) : i < j => issues[i].createdAt >= issues[j].createdAt

SavedByStore(s) == s.wrote /\ s.op \in { "saveIssue", "updateIssueStatus" }

\* C5: findOrphanedIssues returns exactly the names of the directories
\* directly under {workspaceRoot}/{projectId}/ that are not the id of an
\* issue in state, never a plain file, nothing when that directory is
\* absent, and it changes neither the disk nor the state.
C5_OrphanDetection ==
  [][ found' # found =>
        /\ found' = Some({ n \in { p[Len(p)] : p \in dirs } :
                             /\ (ProjectWorkspaceDir(ProjectId) \o << n >>) \in dirs
                             /\ n \notin IdsOf(StoredIssues) })
        /\ \A n \in found'[1] : (ProjectWorkspaceDir(ProjectId) \o << n >>) \notin plain
        /\ UNCHANGED << file, dirs, plain, worktrees, branches, made, procs, named, descriptors, statuses >> ]_vars

\* state {A, B} and sub-directories {A, C} (and a plain file) yield {C}
C5_Witness ==
  /\ found = Some({ "C" })
  /\ IdsOf(StoredIssues) = { "A", "B" }
  /\ SubDirNames(ProjectWorkspaceDir(ProjectId)) = { "A", "C" }
  /\ plain # {}

\* C6: the persisted list never holds two records with one id, and a save
\* of an issue whose id is already stored replaces that record and leaves
\* the number of persisted records unchanged.
C6_ReplaceById ==
  [][ /\ NoDuplicateIds(loadIssues(file', clock'))
      /\ SavedByStore(st') /\ st'.id \in IdsOf(StoredIssues) =>
           /\ Len(file'.issues) = Len(file.issues)
           /\ getIssue(file', st'.id, clock') = st'.issue ]_vars

\* an update (a save of a stored id) has been written next to another record
C6_Witness ==
  /\ st.op = "updateIssueStatus" /\ st.wrote
  /\ Len(file.issues) = 2

C8_RoundTrip ==
  /\ SavedByStore(st) =>
       /\ getIssue(file, st.id, clock) = st.issue
       /\ \E i \in 1..Len(StoredIssues) : Some(StoredIssues[i]) = st.issue
  /\ \A i \in 1..Len(StoredIssues) :
       \A later \in clock..MaxClock :
         LET first == StoredIssues[i]
             again == loadIssues(saveIssue(file, first, clock), later)
         IN  \E j \in 1..Len(again) : again[j] = first

\* a record loaded from the legacy shape has been saved and is read back
C8_Witness ==
  /\ st.op = "updateIssueStatus" /\ st.wrote
  /\ st.issue[1].title = Some("t")
  /\ getIssue(file, st.id, clock) = st.issue

\* C9 as stated: after every write of the store the list is newest first.
C9_SortedAfterEveryWrite == st.wrote => NewestFirst(StoredIssues)

\* C9, amended: after every write made by saveIssue or updateIssueStatus
\* the persisted list is ordered by createdAt, newest first, whatever the
\* file held; a write made by deleteIssue keeps the records it leaves in
\* the order the file had.
C9_SortedAfterSave ==
  [][ /\ SavedByStore(st') => NewestFirst(loadIssues(file', clock'))
      /\ st'.op = "deleteIssue" =>
           loadIssues(file', clock') = WithoutId(StoredIssues, st'.id) ]_vars

\* a save has put a newer record in front of an older one
C9_Witness ==
  /\ SavedByStore(st)
  /\ Len(StoredIssues) = 2
  /\ StoredIssues[1].createdAt > StoredIssues[2].createdAt
  /\ StoredIssues[2].id = st.id

\* ------------------------------------------- createIssue and deleteIssue
IsRemoval(e) == e.cmd = "removeWorktree"

RemovalsOf(call) == SelectSeq(call.log, IsRemoval)

\* removeWorktree for the worktree of turn j, against the repository of turn j
RemovalsDue(call) ==
  { GitCall("removeWorktree", call.repositories[j].path, call.createdWorktrees[j], "") :
      j \in 1..Len(call.createdWorktrees) }

Attempted(call, cmd, path) == \E k \in 1..Len(call.log) :
                                 call.log[k].cmd = cmd /\ call.log[k].path = path

\* C1: when createIssue raises after failing in turn k of the loop over the
\* project's repositories, removeWorktree has been invoked once for each of
\* the k-1 worktrees created before, each against the repository it was
\* created from, for nothing else, and the issue directory is gone.
C1_RollbackCompleteness ==
  \A c \in Slots :
    LET call == calls[c]
    IN  call.op = "createIssue" /\ call.pc = "raised"
          /\ call.failedAt \in 1..Len(call.repositories) =>
            /\ Len(call.createdWorktrees) = call.failedAt - 1
            /\ Len(RemovalsOf(call)) = call.failedAt - 1
            /\ SeqToSet(RemovalsOf(call)) = RemovalsDue(call)
            /\ call.issueDir \notin dirs

\* createIssue has raised, the issue directory is gone, and a worktree made
\* by the call is still registered in its repository
C1_Witness ==
  \E c \in Slots :
    /\ calls[c].op = "createIssue" /\ calls[c].pc = "raised"
    /\ calls[c].failedAt = 2
    /\ calls[c].issueDir \notin dirs
    /\ calls[c].createdWorktrees[1] \in worktrees["/r/lib"]
    /\ RemovalsOf(calls[c]) # << >>

\* C2: createIssue writes the state file at most once, only when a worktree
\* has been created for every repository of the project and the descriptor
\* and the context note are written, and then the record it persists holds
\* every repository; when createIssue has raised, the state file is what it
\* was before the call.
C2_NoPartialRecord ==
  \A c \in Slots :
    LET call == calls[c]
    IN  call.op = "createIssue" =>
          /\ call.writes <= 1
          /\ call.writes = 1 =>
               /\ call.pc = "returned"
               /\ Len(call.createdWorktrees) = Len(call.repositories)
               /\ WrittenFiles("ok", call.issueDir, call.issueId) \subseteq plain
               /\ \E k \in 1..Len(StoredIssues) :
                    /\ StoredIssues[k].id = call.issueId
                    /\ Len(StoredIssues[k].repos) = Len(call.repositories)
          /\ call.pc = "raised" => file = call.fileBefore

\* createIssue has raised on a write after every worktree was created, and
\* the state file still holds the record it held before
C2_Witness ==
  \E c \in Slots :
    /\ calls[c].op = "createIssue" /\ calls[c].pc = "raised"
    /\ calls[c].error = "WriteError"
    /\ Len(calls[c].createdWorktrees) = 2
    /\ IdsOf(StoredIssues) = { "B" }

\* C3: createIssue for an id the state holds, the project existing, returns
\* the stored record at once: no GitService method is invoked, no directory
\* or file is created or removed, the state file is not written; after a
\* first createIssue has persisted a record, the second returns that record.
C3_IdempotentCreation ==
  [][ \A c \in Slots, id \in CreateIds :
        StartCreateIssue(c, id) /\ IsSome(project) /\ id \in IdsOf(StoredIssues) =>
          /\ calls'[c].pc = "returned"
          /\ \E k \in 1..Len(StoredIssues) :
               StoredIssues[k].id = id /\ calls'[c].issue = Some(StoredIssues[k])
          /\ calls'[c].log = << >>
          /\ calls'[c].writes = 0
          /\ UNCHANGED << file, st, dirs, plain, worktrees, branches, made, procs, named, descriptors, statuses >>
          /\ st.op = "saveIssue" /\ st.id = id => calls'[c].issue = st.issue ]_vars

\* the second createIssue has returned the record the first persisted, next
\* to the record of another issue
C3_Witness ==
  \E c \in Slots :
    /\ calls[c].op = "createIssue" /\ calls[c].pc = "returned"
    /\ calls[c].writes = 0
    /\ st.op = "saveIssue" /\ calls[c].issue = st.issue
    /\ Len(StoredIssues) = 2

\* C4: deleteIssue raises only before its loop (issue or project not found);
\* once in the loop, whatever removeWorktree or deleteBranch throws, it
\* returns, and then the cleanup of every recorded repository of the project
\* has been attempted, the workspace directory is gone and the state holds
\* no record of the issue.
C4_DeletionCompletes ==
  \A c \in Slots :
    LET call == calls[c]
    IN  call.op = "deleteIssue" =>
          /\ call.pc = "raised" =>
               /\ call.error \in { "IssueNotFound", "ProjectNotFound" }
               /\ call.log = << >>
          /\ call.pc = "returned" =>
               /\ \A k \in 1..Len(call.issue[1].repos) :
                    IsSome(FindRepo(call.repositories, call.issue[1].repos[k].name)) =>
                      Attempted(call, "worktreeExists", call.issue[1].repos[k].worktreePath)
               /\ call.issue[1].workspaceDir \notin dirs
               /\ call.issueId \notin IdsOf(StoredIssues)

\* deleteIssue has returned although the cleanup of the first of two
\* repositories threw; the second was cleaned up, branch included
C4_Witness ==
  \E c \in Slots :
    /\ calls[c].op = "deleteIssue" /\ calls[c].pc = "returned"
    /\ Len(calls[c].issue[1].repos) = 2
    /\ calls[c].errors = << calls[c].issue[1].repos[1].name >>
    /\ calls[c].log[Len(calls[c].log)].cmd = "deleteBranch"
    /\ IdsOf(StoredIssues) = { "B" }

\* C10: when a removal of the rollback has thrown, removeWorktree has still
\* been attempted for every worktree the call created, the issue directory
\* is gone, and createIssue raises the error that started the rollback.
C10_RollbackBestEffort ==
  \A c \in Slots :
    LET call == calls[c]
    IN  call.op = "createIssue" /\ call.pc = "raised" /\ call.errors # << >> =>
          /\ \A j \in 1..Len(call.createdWorktrees) :
               Attempted(call, "removeWorktree", call.createdWorktrees[j])
          /\ call.issueDir \notin dirs
          /\ call.error \in { "RemoteParseError", "InvalidRepository",
                              "GitOperationError", "WriteError" }

\* the removal of the first worktree threw, and none was attempted for the
\* second
C10_Witness ==
  \E c \in Slots :
    /\ calls[c].op = "createIssue" /\ calls[c].pc = "raised"
    /\ Len(calls[c].createdWorktrees) = 2
    /\ calls[c].errors = << calls[c].createdWorktrees[1] >>
    /\ ~Attempted(calls[c], "removeWorktree", calls[c].createdWorktrees[2])

\* every removal of the rollback was invoked against the repository the
\* worktree was created from, and none threw
RollbackClean(call) ==
  /\ call.errors = << >>
  /\ SeqToSet(RemovalsOf(call)) = RemovalsDue(call)

\* C11: when createIssue has raised after failing in turn k and every
\* removal of its rollback succeeded, nothing the call created locally is
\* left: the worktrees of turns 1..k-1 are not registered, the issue
\* directory is gone, and the branch the call created in each of those
\* repositories no longer exists.
C11_RollbackCoversBranches ==
  \A c \in Slots :
    LET call == calls[c]
    IN  call.op = "createIssue" /\ call.pc = "raised"
          /\ call.failedAt \in 1..Len(call.repositories) /\ RollbackClean(call) =>
            /\ call.issueDir \notin dirs
            /\ \A j \in 1..Len(call.createdWorktrees) :
                 /\ call.createdWorktrees[j] \notin worktrees[call.repositories[j].path]
                 /\ call.branchName \notin branches[call.repositories[j].path]

\* createIssue has raised in turn 2, the worktree of turn 1 is removed and
\* the issue directory is gone, and the branch of turn 1 is still there
C11_Witness ==
  \E c \in Slots :
    /\ calls[c].op = "createIssue" /\ calls[c].pc = "raised"
    /\ calls[c].failedAt = 2 /\ RollbackClean(calls[c])
    /\ calls[c].issueDir \notin dirs
    /\ calls[c].createdWorktrees[1] \notin worktrees[calls[c].repositories[1].path]
    /\ calls[c].branchName \in branches[calls[c].repositories[1].path]

\* the names of the directories directly under the project's workspace
\* directory, on a disk that holds the directories ds
ProjectSubDirs(ds) ==
  { q[Len(q)] : q \in { d \in ds : /\ Len(d) = Len(ProjectWorkspaceDir(ProjectId)) + 1
                                   /\ IsPrefix(ProjectWorkspaceDir(ProjectId), d) } }

\* C12: cleanupOrphanedIssues removes every directory under the project's
\* workspace directory whose name is not the id of a stored issue and no
\* other directory under it, returns their number, leaves the state file,
\* the repositories and the store untouched, and the orphans of the
\* resulting disk are none.
C12_CleanupOrphans ==
  [][ CleanupOrphanedIssues =>
        LET orphans == ProjectSubDirs(dirs) \ IdsOf(StoredIssues)
        IN  /\ ProjectSubDirs(dirs) \ ProjectSubDirs(dirs') = orphans
            /\ cleaned' = Some(Cardinality(orphans))
            /\ \A id \in IdsOf(StoredIssues) \cap ProjectSubDirs(dirs) :
                 \A d \in dirs : IsPrefix(ProjectWorkspaceDir(ProjectId) \o << id >>, d)
                                   => d \in dirs'
            /\ ProjectSubDirs(dirs') \ IdsOf(loadIssues(file', clock')) = {}
            /\ UNCHANGED << file, st, worktrees, branches, calls, made, procs, named, descriptors, statuses >> ]_vars

\* one orphan was removed next to the directory of a stored issue
C12_Witness ==
  /\ cleaned = Some(1)
  /\ ProjectSubDirs(dirs) = { "A" }
  /\ IdsOf(StoredIssues) = { "A", "B" }
  /\ plain # {}

\* C13: deleteIssue for an id the state does not hold raises the issue
\* not-found error, and for a stored issue whose project file is gone the
\* project not-found error; in both cases no GitService method is invoked
\* and worktrees, branches, directories, files and the state file are as
\* they were.
C13_DeleteNotFound ==
  [][ \A c \in Slots, id \in IssueIds, deleteBranches \in BOOLEAN :
        StartDeleteIssue(c, id, deleteBranches)
          /\ (id \notin IdsOf(StoredIssues) \/ ~IsSome(project)) =>
            /\ calls'[c].pc = "raised"
            /\ calls'[c].error = IF id \notin IdsOf(StoredIssues)
                                   THEN "IssueNotFound" ELSE "ProjectNotFound"
            /\ calls'[c].log = << >>
            /\ calls'[c].writes = 0
            /\ UNCHANGED << file, st, dirs, plain, worktrees, branches, made, procs, named, descriptors, statuses >> ]_vars

\* deleteIssue has raised for want of the project while the workspace and
\* a worktree of the issue are in place
C13_Witness ==
  \E c \in Slots :
    /\ calls[c].op = "deleteIssue" /\ calls[c].pc = "raised"
    /\ calls[c].error = "ProjectNotFound"
    /\ calls[c].issue[1].workspaceDir \in dirs
    /\ calls[c].issue[1].repos[1].worktreePath \in worktrees["/r/web"]
    /\ calls[c].issueId \in IdsOf(StoredIssues)

\* C14: createIssue while the project file is gone raises ProjectNotFound
\* at once, also when the state holds the requested id: it returns no
\* issue, invokes no GitService method, and directories, files, worktrees,
\* branches and the state file are as they were.
C14_CreateProjectNotFound ==
  [][ \A c \in Slots, id \in CreateIds :
        StartCreateIssue(c, id) /\ ~IsSome(project) =>
          /\ calls'[c].pc = "raised"
          /\ calls'[c].error = "ProjectNotFound"
          /\ calls'[c].issue = None
          /\ calls'[c].log = << >>
          /\ calls'[c].writes = 0
          /\ UNCHANGED << file, st, dirs, plain, worktrees, branches, made, procs, named, descriptors, statuses >> ]_vars

\* createIssue has raised ProjectNotFound for an id the state holds
C14_Witness ==
  \E c \in Slots :
    /\ calls[c].op = "createIssue" /\ calls[c].pc = "raised"
    /\ calls[c].error = "ProjectNotFound"
    /\ calls[c].issueId \in IdsOf(StoredIssues)
    /\ project = None

\* C15: when createIssue fails in a turn whose repository path holds no
\* usable repository, the error is InvalidRepository and createWorktree has
\* not been invoked for that repository.
C15_InvalidRepositoryFirst ==
  \A c \in Slots :
    LET call == calls[c]
    IN  call.op = "createIssue" /\ call.pc \in { "rollback", "raised" }
          /\ call.failedAt \in 1..Len(call.repositories)
          /\ call.condition # "usable" =>
            /\ call.error = "InvalidRepository"
            /\ \A k \in 1..Len(call.log) :
                 call.log[k].cmd = "createWorktree" =>
                   call.log[k].repo # call.repositories[call.failedAt].path

\* createIssue has raised the error of getOrgFromRemote for a path that
\* holds no repository; isValidRepository was never invoked
C15_Witness ==
  \E c \in Slots :
    /\ calls[c].op = "createIssue" /\ calls[c].pc = "raised"
    /\ calls[c].condition = "notRepository"
    /\ calls[c].error = "GitOperationError"
    /\ \A k \in 1..Len(calls[c].log) : calls[c].log[k].cmd # "isValidRepository"

C17_ReposImmutable ==
  [][ \A i \in 1..Len(StoredIssues) :
        \A j \in 1..Len(loadIssues(file', clock')) :
          StoredIssues[i].id = loadIssues(file', clock')[j].id =>
            loadIssues(file', clock')[j].repos = StoredIssues[i].repos ]_vars

\* the status of the issue createIssue recorded for two repositories has
\* been updated after the project was reduced to one repository
C17_Witness ==
  /\ st.op = "updateIssueStatus" /\ st.wrote /\ st.id = "A"
  /\ IsSome(project) /\ Len(project[1]) = 1
  /\ \E i \in 1..Len(StoredIssues) :
       /\ StoredIssues[i].id = "A"
       /\ StoredIssues[i].status = "closed"
       /\ Len(StoredIssues[i].repos) = 2
       /\ StoredIssues[i].repos[1].branch = "feature/A"

\* C18: createIssueDirectory returns different directories for different
\* (project id, issue id) pairs, whatever non-blank issue id it is given.
C18_NoDirectoryCollision ==
  \A m \in made : \A n \in made :
    << m.projectId, m.issueId >> # << n.projectId, n.issueId >> => m.issueDir # n.issueDir

\* the issue id "../web2/A" of project web has been given the directory of
\* issue A of project web2
C18_Witness ==
  /\ [ projectId |-> "web2", issueId |-> "A",
       issueDir |-> << "/", "ws", "web2", "A" >> ] \in made
  /\ [ projectId |-> "web", issueId |-> "../web2/A",
       issueDir |-> << "/", "ws", "web2", "A" >> ] \in made

RECURSIVE WithId(_)
\* the raw records that carry an id, in the order of the file
WithId(raws) ==
  IF raws = << >> THEN << >>
  ELSE (IF TruthyStr(Head(raws).id) THEN << Head(raws) >> ELSE << >>) \o WithId(Tail(raws))

\* the state file cannot be read as a list of records: it is absent,
\* unparsable, or parsed without an issues list
NoRecords(f) == f.kind # "issues"

\* a step in which loadIssues returns
LoadReturned == st' # st /\ st'.op = "loadIssues"

\* C19 as stated: loadIssues returns (never raises) and leaves the file as it
\* is; it returns the empty sequence when the file is absent, unparsable or
\* without an issues list, and otherwise one record for every raw record that
\* carries an id, in the order of the file.
C19_LoadIssues ==
  [][ LoadReturned =>
        /\ file' = file
        /\ NoRecords(file) => st'.ret = << >>
        /\ ~NoRecords(file) =>
             LET kept == WithId(file.issues)
             IN  /\ Len(st'.ret) = Len(kept)
                 /\ \A i \in 1..Len(kept) : st'.ret[i].id = kept[i].id[1] ]_vars

\* C19, amended: loadIssues also returns the empty sequence when the
\* normalization of a record raises; otherwise it returns the normalized
\* records of the raw records that carry an id, in the order of the file;
\* it never writes the file.
C19_LoadIssuesCaught ==
  [][ LoadReturned =>
        /\ file' = file
        /\ (NoRecords(file) \/ \E i \in 1..Len(file.issues) : normalizeThrows(file.issues[i]))
             => st'.ret = << >>
        /\ (~NoRecords(file) /\ \A i \in 1..Len(file.issues) : ~normalizeThrows(file.issues[i]))
             => LET kept == WithId(file.issues)
                IN  st'.ret = [ i \in 1..Len(kept) |-> normalizeIssue(kept[i], clock)[1] ] ]_vars

\* loadIssues has returned the one normalized record of a file that holds a
\* record without id and a legacy record with an id
C19_Witness ==
  /\ st.op = "loadIssues"
  /\ file.kind = "issues"
  /\ Len(file.issues) = 2
  /\ ~TruthyStr(file.issues[1].id)
  /\ IsSome(file.issues[2].repositories)
  /\ Len(st.ret) = 1
  /\ st.ret[1].id = file.issues[2].id[1]

\* the state file is read as a list of records and every record is normalized
Normalizable(f) ==
  ~NoRecords(f) /\ \A i \in 1..Len(f.issues) : ~normalizeThrows(f.issues[i])

\* the canonical key wins for projectId / project_id
ProjectIdCanonicalFirst(raw, issue) ==
  /\ IsSome(raw.projectId) => issue.projectId = raw.projectId[1]
  /\ (~IsSome(raw.projectId) /\ IsSome(raw.project_id)) => issue.projectId = raw.project_id[1]

\* the canonical key wins for workspaceDir / workspace.path
WorkspaceDirCanonicalFirst(raw, issue) ==
  /\ IsSome(raw.workspaceDir) => issue.workspaceDir = raw.workspaceDir[1]
  /\ (~IsSome(raw.workspaceDir) /\ IsSome(raw.workspace_path))
       => issue.workspaceDir = PathDirname(raw.workspace_path[1])

\* the canonical key wins for repos / repositories
ReposCanonicalFirst(raw, issue) ==
  /\ IsSome(raw.repos) => issue.repos = raw.repos[1]
  /\ (~IsSome(raw.repos) /\ IsSome(raw.repositories))
       => issue.repos = [ k \in 1..Len(raw.repositories[1]) |->
                            normalizeRepo(raw.repositories[1][k], issue.workspaceDir) ]

\* C20: in every record loadIssues returns, each of projectId, workspaceDir
\* and repos has the value of the canonical key when the raw record carries
\* it, and the value mapped from the legacy key only when the canonical key
\* is absent; a record with both repos and repositories keeps its repos.
C20_CanonicalFirst ==
  [][ (LoadReturned /\ Normalizable(file)) =>
        LET kept == WithId(file.issues)
        IN  \A i \in 1..Len(kept) :
              /\ ProjectIdCanonicalFirst(kept[i], st'.ret[i])
              /\ WorkspaceDirCanonicalFirst(kept[i], st'.ret[i])
              /\ ReposCanonicalFirst(kept[i], st'.ret[i]) ]_vars

\* loadIssues has returned, for a record that carries both repos and
\* repositories, the list mapped from repositories
C20_Witness ==
  /\ st.op = "loadIssues"
  /\ Normalizable(file)
  /\ Len(file.issues) = 1
  /\ IsSome(file.issues[1].repos) /\ IsSome(file.issues[1].repositories)
  /\ Len(st.ret) = 1
  /\ st.ret[1].repos # file.issues[1].repos[1]
  /\ st.ret[1].repos[1].name = file.issues[1].repositories[1][1].name[1]

\* the first record of a list under an id
FirstWithId(issues, id) ==
  issues[CHOOSE i \in 1..Len(issues) :
           issues[i].id = id /\ \A j \in 1..(i - 1) : issues[j].id # id]

\* C21: updateIssueStatus(id, s) on a stored id leaves one record under the
\* id, with status s, updatedAt the current time and not earlier than before,
\* and every other field as it was; the records under other ids are as they
\* were; on an id that is not stored the state file is not written; and
\* createdAt <= updatedAt in every record that createIssue or
\* updateIssueStatus has written.
C21_StatusUpdate ==
  [][ /\ \A id \in IssueIds, s \in StatusSamples :
           UpdateIssueStatus(id, s) =>
             LET before == StoredIssues
                 after == loadIssues(file', clock')
             IN  IF id \in IdsOf(before)
                   THEN LET old == FirstWithId(before, id)
                        IN  /\ st'.wrote
                            /\ { r \in SeqToSet(after) : r.id = id }
                                 = { [ old EXCEPT !.status = s, !.updatedAt = clock ] }
                            /\ old.updatedAt <= clock
                            /\ { r \in SeqToSet(after) : r.id # id }
                                 = { r \in SeqToSet(before) : r.id # id }
                   ELSE file' = file /\ ~st'.wrote
      /\ \A c \in Slots :
           (calls'[c].pc = "returned" /\ calls'[c].op = "createIssue") =>
             calls'[c].issue[1].createdAt <= calls'[c].issue[1].updatedAt
      /\ (st'.op = "updateIssueStatus" /\ st'.wrote) =>
           st'.issue[1].createdAt <= st'.issue[1].updatedAt ]_vars

\* the status of the issue createIssue recorded has been updated at a later
\* time, next to a legacy record
C21_Witness ==
  /\ st.op = "updateIssueStatus" /\ st.wrote /\ st.id = "A"
  /\ \E c \in Slots : calls[c].pc = "returned" /\ calls[c].op = "createIssue"
                        /\ calls[c].issue[1].createdAt = 1
  /\ st.issue[1].status = "closed"
  /\ st.issue[1].createdAt = 1 /\ st.issue[1].updatedAt = 2
  /\ Len(StoredIssues) = 2
  /\ "B" \in IdsOf(StoredIssues)

\* the turn of the loop of a call that a git operation belongs to: the index
\* of its repository in project.repositories (createIssue) or of the
\* RepoState of its repository in issue.repos (deleteIssue)
TurnOf(call, entry) ==
  IF call.op = "createIssue"
    THEN CHOOSE j \in 1..Len(call.repositories) : call.repositories[j].path = entry.repo
    ELSE CHOOSE j \in 1..Len(call.issue[1].repos) :
           LET repo == FindRepo(call.repositories, call.issue[1].repos[j].name)
           IN  IsSome(repo) /\ repo[1].path = entry.repo

\* a git operation of the rollback of createIssue
IsRollback(call, entry) == call.op = "createIssue" /\ entry.cmd = "removeWorktree"

\* C22 as stated: among the git operations of a call, whatever loop they
\* belong to, none for a repository comes after one for a later repository.
C22_SequentialInListOrder ==
  \A c \in Slots :
    \A k \in 1..Len(calls[c].log) : \A l \in k..Len(calls[c].log) :
      TurnOf(calls[c], calls[c].log[k]) <= TurnOf(calls[c], calls[c].log[l])

\* the git operations of the creation loop or of the deletion loop are in
\* list order, those of the rollback follow all of them and are in the order
\* in which the worktrees were created
LoopsInOrder(call) ==
  \A k \in 1..Len(call.log) : \A l \in k..Len(call.log) :
    LET a == call.log[k]
        b == call.log[l]
    IN  /\ (~IsRollback(call, a) /\ ~IsRollback(call, b)) => TurnOf(call, a) <= TurnOf(call, b)
        /\ IsRollback(call, a) => IsRollback(call, b)
        /\ (IsRollback(call, a) /\ IsRollback(call, b)) =>
             \E m \in 1..Len(call.createdWorktrees) : \E n \in m..Len(call.createdWorktrees) :
               call.createdWorktrees[m] = a.path /\ call.createdWorktrees[n] = b.path

\* C22, amended: the git operations of a call complete one after the other
\* (a step of the call adds operations at the end of those that have
\* completed), and within each loop (creation, deletion, rollback) the
\* repositories are processed in list order; the rollback is a second pass.
C22_SequentialWithinLoops ==
  [][ \A c \in Slots :
        /\ (calls'[c].log = << >> \/ IsPrefix(calls[c].log, calls'[c].log))
        /\ LoopsInOrder(calls'[c]) ]_vars

\* createIssue has failed at its second repository and has removed the
\* worktree of the first, after the operations on the second
C22_Witness ==
  \E c \in Slots :
    LET call == calls[c]
    IN  /\ call.op = "createIssue" /\ call.pc = "raised" /\ call.failedAt = 2
        /\ Len(call.repositories) >= 2
        /\ Len(call.log) >= 2
        /\ call.log[Len(call.log)].cmd = "removeWorktree"
        /\ call.log[Len(call.log)].repo = call.repositories[1].path
        /\ call.log[Len(call.log) - 1].repo = call.repositories[2].path

\* C23: no lock is held between the load and the write of saveIssue or
\* deleteIssue: a process writes what it computed from the content it read,
\* whatever another process has written since, so the last writer wins and
\* the records the other process saved since the load are not in the file.
C23_LastWriterWins ==
  [][ \A p \in Procs :
        ProcWrite(p) =>
          LET mine == loadIssues(procs[p].seen, procs[p].at)
              written == loadIssues(file', clock')
          IN  /\ { r \in SeqToSet(written) : r.id # procs[p].id }
                   = { r \in SeqToSet(mine) : r.id # procs[p].id }
              /\ (procs[p].op = "saveIssue") =>
                   { r \in SeqToSet(written) : r.id = procs[p].id } = { procs[p].issue[1] }
              /\ (procs[p].op = "deleteIssue") => procs[p].id \notin IdsOf(written) ]_vars

\* both processes read the same state file, one saved issue A, the other
\* saved issue B after it, and the record of A is not in the file
C23_Witness ==
  /\ procs["p1"].pc = "done" /\ procs["p1"].op = "saveIssue" /\ procs["p1"].id = "A"
  /\ procs["p2"].pc = "done" /\ procs["p2"].op = "saveIssue" /\ procs["p2"].id = "B"
  /\ procs["p1"].seen = procs["p2"].seen
  /\ "A" \notin IdsOf(loadIssues(procs["p2"].seen, clock))
  /\ file = saveIssue(procs["p2"].seen, procs["p2"].issue[1], clock)
  /\ "A" \notin IdsOf(StoredIssues)

\* C24: a deleteIssue call whose deleteBranches is false (or absent) invokes
\* neither branchExists nor deleteBranch, and none of its steps changes a
\* branch or the project: its steps only take worktrees, directories and
\* files away and, at the end, the record of the issue.
C24_KeepBranches ==
  [][ \A c \in Slots :
        (calls'[c] # calls[c] /\ calls'[c].op = "deleteIssue" /\ ~calls'[c].deleteBranches) =>
          /\ \A k \in 1..Len(calls'[c].log) :
               calls'[c].log[k].cmd \in { "worktreeExists", "removeWorktree" }
          /\ branches' = branches
          /\ project' = project
          /\ \A r \in RepoPaths : worktrees'[r] \subseteq worktrees[r]
          /\ dirs' \subseteq dirs /\ plain' \subseteq plain
          /\ IdsOf(loadIssues(file', clock')) \subseteq IdsOf(StoredIssues) ]_vars

\* deleteIssue keeping branches has returned: the worktree of the issue was
\* removed, its branch is still in the repository
C24_Witness ==
  \E c \in Slots :
    LET call == calls[c]
    IN  /\ call.op = "deleteIssue" /\ call.pc = "returned" /\ ~call.deleteBranches
        /\ Len(call.issue[1].repos) = 1
        /\ Len(call.log) = 2
        /\ call.log[Len(call.log)].cmd = "removeWorktree"
        /\ call.issue[1].repos[1].branch \in branches[call.log[Len(call.log)].repo]
        /\ call.issue[1].repos[1].worktreePath \notin dirs
        /\ call.issueId \notin IdsOf(StoredIssues)

\* the separator that is configured for a project: the one of its
\* branch_naming when that gives one, else the global one
ConfiguredSeparator(override, global) ==
  IF IsSome(override) /\ IsSome(override[1].separator) THEN override[1].separator[1]
  ELSE global.separator[1]

\* the pattern that is configured for a project
ConfiguredPattern(override, global) ==
  IF IsSome(override) THEN override[1].pattern ELSE global.pattern

\* C25: the branch name is the pattern of the project's branch_naming when the
\* project defines one, else the global pattern, with the token {issue_id}
\* replaced by the issue id whose whitespace runs are replaced by the
\* configured separator, also when the branch_naming gives a pattern only.
C25_BranchName ==
  \A n \in named :
    n.name = ReplaceFirst(ConfiguredPattern(n.override, n.global), "{issue_id}",
                          Join(Words(n.issueId), ConfiguredSeparator(n.override, n.global)))

\* the branch name of issue "fix bug" under the branch_naming of the README
\* (a pattern only)
C25_Witness ==
  \E n \in named :
    /\ n.issueId = "fix bug"
    /\ IsSome(n.override) /\ ~IsSome(n.override[1].separator)
    /\ n.name = "feature/fixundefinedbug"

\* the path of the descriptor of an issue of the project
DescriptorOf(issueId) ==
  WorkspaceFilePath(createIssueDirectory(WorkspaceRoot, ProjectId, issueId), issueId)

\* C26: the descriptor generateWorkspace writes holds, whatever the file held
\* before, the root folder at path '.' and then one folder per repository, in
\* the order given, at ./{org}/{repo} when the map gives an organization for
\* the repository and at ./{repo} otherwise; and the folders of the
\* descriptor of an issue createIssue has returned lead, from the issue
\* directory, to the worktree paths recorded for the repositories.
C26_Descriptor ==
  [][ /\ \A issueId \in CreateIds, repos \in ProjectSamples :
           \A repoOrgs \in OrgMaps(repos) :
             GenerateWorkspace(issueId, repos, repoOrgs) =>
               LET folders == descriptors'[DescriptorOf(issueId)]
               IN  /\ DescriptorOf(issueId) \in plain'
                   /\ Len(folders) = Len(repos) + 1
                   /\ folders[1].path = << "." >>
                   /\ \A k \in 1..Len(repos) :
                        folders[k + 1].path =
                          IF IsSome(repoOrgs)
                               /\ \E e \in SeqToSet(repoOrgs[1]) : e.name = repos[k].name
                            THEN << ".", OrgOf(repos[k].path) >> \o SplitPath(repos[k].name)
                            ELSE << "." >> \o SplitPath(repos[k].name)
      /\ \A c \in Slots :
           (calls'[c] # calls[c] /\ calls'[c].op = "createIssue" /\ calls'[c].pc = "returned"
              /\ calls'[c].log # << >>) =>
             LET issue == calls'[c].issue[1]
                 folders == descriptors'[DescriptorOf(issue.id)]
             IN  /\ DescriptorOf(issue.id) \in plain'
                 /\ Len(folders) = Len(issue.repos) + 1
                 /\ folders[1].path = << "." >>
                 /\ \A k \in 1..Len(issue.repos) :
                      PathJoin(issue.workspaceDir, folders[k + 1].path)
                        = issue.repos[k].worktreePath ]_vars

\* the descriptor createIssue wrote for two repositories has been written
\* again without a map of organizations, for one repository
C26_Witness ==
  /\ \E c \in Slots : /\ calls[c].op = "createIssue" /\ calls[c].pc = "returned"
                      /\ Len(calls[c].issue[1].repos) = 2
                      /\ calls[c].issue[1].repos[1].name = "lib/api"
  /\ DescriptorOf("A") \in DOMAIN descriptors
  /\ descriptors[DescriptorOf("A")] = << RootFolder, RepoFolder(None, "lib/api") >>
  /\ descriptors[DescriptorOf("A")][2].path = << ".", "lib", "api" >>

\* the call of a slot has settled: it has returned or raised
Settled(c) == calls[c].pc \in { "idle", "returned", "raised" }

\* C27: every call that is under way settles: a createIssue call returns its
\* issue or raises, and it raises only out of the catch block, after the last
\* turn of the rollback loop (or with no worktree to roll back); a
\* deleteIssue call returns or raises; no step suspends or cancels a call
\* for good.
C27_RunToCompletion ==
  /\ \A c \in Slots : (~Settled(c)) ~> Settled(c)
  /\ [][ \A c \in Slots :
           (~Settled(c) /\ calls'[c].pc = "raised" /\ calls[c].op = "createIssue") =>
             \/ calls[c].createdWorktrees = << >>
             \/ calls[c].pc = "rollback" /\ calls[c].i = Len(calls[c].createdWorktrees) ]_vars
  /\ [][ \A c \in Slots :
           (~Settled(c) /\ calls'[c].pc = "returned" /\ calls[c].op = "createIssue") =>
             IsSome(calls'[c].issue) ]_vars

\* createIssue has raised after a rollback of two worktrees
C27_Witness ==
  \E c \in Slots :
    /\ calls[c].op = "createIssue" /\ calls[c].pc = "raised"
    /\ Len(calls[c].createdWorktrees) = 2
    /\ calls[c].error = "WriteError"

\* ------------------------------------------------- GitService.getBranchStatus
\* what a query of a repository meets: simpleGit(repoPath) constructs the
\* handle (the path is a directory) or throws; git branch and git ls-remote
\* run or fail; ls-remote prints the heads of the remote that match
GitWorld(isDirectory, localOk, remoteOk, remoteOutput) ==
  [ isDirectory |-> isDirectory, localOk |-> localOk, remoteOk |-> remoteOk,
    remoteOutput |-> remoteOutput ]

RemoteOutputs == { "", "\n", "1f3a\trefs/heads/feature/A\n" }

\* String.prototype.trim on the outputs of ls-remote
Trim(s) ==
  CASE s = "\n" -> ""
    [] s = "1f3a\trefs/heads/feature/A\n" -> "1f3a\trefs/heads/feature/A"
    [] OTHER -> s

\* the outcome of an async method: the value it resolves to or the rejection
Resolved(value) == [ raised |-> FALSE, value |-> Some(value) ]
Rejected == [ raised |-> TRUE, value |-> None ]

\* const git = simpleGit(repoPath), ahead of the try block
HandleConstructed(world) == world.isDirectory

\* GitService.branchExists
branchExists(world, locals, branchName) ==
  IF ~HandleConstructed(world) THEN Rejected
  ELSE IF world.localOk THEN Resolved(branchName \in locals)
  ELSE Resolved(FALSE)

\* GitService.getBranchStatus
getBranchStatus(world, locals, branchName) ==
  IF ~HandleConstructed(world) THEN Rejected
  ELSE LET created == branchExists(world, locals, branchName)
       IN  IF created.raised THEN Rejected
           ELSE LET pushed == IF created.value[1] /\ world.remoteOk
                                THEN Trim(world.remoteOutput) # ""
                                ELSE FALSE
                IN  Resolved([ created |-> created.value[1], pushed |-> pushed ])

GitWorlds ==
  { GitWorld(d, l, r, o) : d \in BOOLEAN, l \in BOOLEAN, r \in BOOLEAN, o \in RemoteOutputs }

\* await gitService.getBranchStatus(repoPath, branchName) in some world
GetBranchStatus(repoPath, branchName, world) ==
  /\ Cardinality(statuses) < MaxStatuses
  /\ statuses' = statuses \cup
       { [ repoPath |-> repoPath, branchName |-> branchName, world |-> world,
           locals |-> branches[repoPath],
           outcome |-> getBranchStatus(world, branches[repoPath], branchName) ] }
  /\ UNCHANGED << clock, file, st, project, dirs, plain, worktrees, branches, calls, found,
                  cleaned, made, procs, named, descriptors >>

\* a branch is made or removed in the repository outside the orchestrator
SwitchBranch(repoPath, branchName) ==
  /\ branches' = [ branches EXCEPT ![repoPath] =
                     IF branchName \in @ THEN @ \ { branchName } ELSE @ \cup { branchName } ]
  /\ UNCHANGED << clock, file, st, project, dirs, plain, worktrees, calls, found,
                  cleaned, made, procs, named, descriptors, statuses >>

NextBranchStatus ==
  \/ \E world \in GitWorlds : GetBranchStatus("/r/web", "feature/A", world)
  \/ SwitchBranch("/r/web", "feature/A")

SpecBranchStatus == InitStore /\ [][NextBranchStatus]_vars

\* C30: getBranchStatus never raises; created is the local existence of the
\* branch, false when the query fails; pushed is false when the remote query
\* fails; pushed implies created.
C30_BranchStatus ==
  \A s \in statuses :
    /\ ~ s.outcome.raised
    /\ LET status == s.outcome.value[1]
       IN  /\ status.created = (s.world.localOk /\ s.branchName \in s.locals)
           /\ ~ s.world.remoteOk => ~ status.pushed
           /\ status.pushed => status.created

\* getBranchStatus was applied to a path that is not a directory, and raised
C30_Witness ==
  \E s \in statuses :
    /\ ~ s.world.isDirectory
    /\ s.branchName \in s.locals
    /\ s.outcome.raised

\* a git operation of the call on a branch of a repository
AttemptedOnBranch(call, cmd, repoPath, branch) ==
  \E k \in 1..Len(call.log) :
    call.log[k].cmd = cmd /\ call.log[k].repo = repoPath /\ call.log[k].branch = branch

\* C28: when deleteIssue with deleteBranches has returned, deleteBranch has
\* been invoked for every recorded RepoState whose repository is in the
\* project and whose branch is (still) in the repository, whether or not its
\* worktree was there or could be removed; and no git operation has been
\* invoked on behalf of a RepoState whose repository is not in the project.
C28_BranchesDeleted ==
  \A c \in Slots :
    LET call == calls[c]
    IN  (call.op = "deleteIssue" /\ call.pc = "returned" /\ call.deleteBranches) =>
          /\ \A k \in 1..Len(call.issue[1].repos) :
               LET repoState == call.issue[1].repos[k]
                   repo == FindRepo(call.repositories, repoState.name)
               IN  (IsSome(repo) /\ repoState.branch \in branches[repo[1].path]) =>
                     AttemptedOnBranch(call, "deleteBranch", repo[1].path, repoState.branch)
          /\ \A l \in 1..Len(call.log) :
               \E k \in 1..Len(call.issue[1].repos) :
                 LET repo == FindRepo(call.repositories, call.issue[1].repos[k].name)
                 IN  IsSome(repo) /\ repo[1].path = call.log[l].repo

\* deleteIssue with deleteBranches has returned after the removal of the
\* worktree threw: branchExists was not asked and the branch is still there
C28_Witness ==
  \E c \in Slots :
    LET call == calls[c]
    IN  /\ call.op = "deleteIssue" /\ call.pc = "returned" /\ call.deleteBranches
        /\ Len(call.issue[1].repos) = 1
        /\ call.errors = << call.issue[1].repos[1].name >>
        /\ Len(call.log) = 2
        /\ call.log[2].cmd = "removeWorktree"
        /\ call.issue[1].repos[1].branch \in branches[call.log[2].repo]

\* the call is about to add the worktree of its repository, the worktree
\* path is free, and the branch of the issue is already in the repository
BranchAlreadyThere(c) ==
  LET call == calls[c]
  IN  /\ call.op = "createIssue" /\ call.pc = "createWorktree"
      /\ call.branchName \in branches[call.repositories[call.i].path]
      /\ call.worktreePath \notin worktrees[call.repositories[call.i].path]
      /\ ~Exists(call.worktreePath)

\* C29: createIssue does not fail merely because the branch exists: when the
\* call is about to add a worktree at a free path and the branch is already
\* in the repository (as after createIssue, then deleteIssue keeping the
\* branches, then createIssue with the same id), the step can add the
\* worktree and go on.
C29_ExistingBranchCheckedOut ==
  \A c \in Slots :
    BranchAlreadyThere(c) =>
      ENABLED (CreateWorktree(c) /\ calls'[c].pc = "status")

\* the second createIssue of the same id has reached the worktree step with
\* the branch left behind, nothing else in its way
C29_Witness ==
  \E c \in Slots :
    /\ BranchAlreadyThere(c)
    /\ calls[c].i = 1
    /\ ~ IsSome(getIssue(file, calls[c].issueId, clock))

\* --------------------------------------- interleaved calls in one process
\* the flows of control of one extension host: two commands under way
Flows == { "c1", "c2" }

\* the issue id each flow calls createIssue with: the same id, or another
PairIds == [ c \in Flows |-> IF c = "c1" THEN { "A" } ELSE { "A", "B" } ]

\* any step of a createIssue call past its first await
CreateStep(c) ==
  \/ CreateGetOrg(c)
  \/ CreateValidate(c)
  \/ CreateWorktree(c)
  \/ CreateStatus(c)
  \/ CreateRollback(c)

\* each flow calls createIssue once; the calls interleave at their awaits
NextPair ==
  \/ \E c \in Flows : \E id \in PairIds[c] :
       calls[c].pc = "idle" /\ EnterCreateIssue(c, id)
  \/ \E c \in Flows : CreateStep(c)

InitPair == InitFlows(Flows, AbsentFile, << Repo("web", "/r/web") >>, EmptyDisk)

SpecPair == InitPair /\ [][NextPair]_vars

\* C32: when two createIssue calls of one process for different issue ids
\* have interleaved and both have returned their issue, the state file holds
\* both issues.
C32_BothPersisted ==
  (\A c \in Flows : calls[c].op = "createIssue" /\ calls[c].pc = "returned")
    /\ calls["c1"].issueId # calls["c2"].issueId =>
      { calls[c].issueId : c \in Flows } \subseteq IdsOf(StoredIssues)

\* both calls have returned, and the second started before the first wrote
\* the state file
C32_Witness ==
  /\ \A c \in Flows : calls[c].op = "createIssue" /\ calls[c].pc = "returned"
  /\ calls["c1"].issueId = "A" /\ calls["c2"].issueId = "B"
  /\ \A c \in Flows : calls[c].fileBefore = AbsentFile
  /\ IdsOf(StoredIssues) = { "A", "B" }

\* the call is in its loop: its issue directory is made, the worktrees of
\* createdWorktrees are added, and it has not entered its catch block
InLoop(c) ==
  /\ calls[c].op = "createIssue"
  /\ calls[c].pc \in { "getOrg", "validate", "createWorktree", "status" }

\* the record of the issue in the state file, as a set (empty when absent)
PersistedRecords(f, issueId) ==
  LET issues == loadIssues(f, clock)
  IN  { issues[k] : k \in { n \in 1..Len(issues) : issues[n].id = issueId } }

\* C33: when createIssue calls interleave (two of them for the same issue
\* id), the rollback of a failing call leaves what another call has created:
\* as long as a call is in its loop, its issue directory and the worktrees
\* it has created are on disk; and every record written to the state file
\* refers to a workspace directory and to worktree paths that are on disk
\* when it is written.
C33_RollbackOwnEffectsOnly ==
  /\ [] (\A c \in Flows :
           InLoop(c) =>
             /\ calls[c].issueDir \in dirs
             /\ \A j \in 1..Len(calls[c].createdWorktrees) :
                  calls[c].createdWorktrees[j] \in dirs)
  /\ [][ file' # file =>
           \A id \in IssueIds :
             \A issue \in PersistedRecords(file', id) \ PersistedRecords(file, id) :
               /\ issue.workspaceDir \in dirs'
               /\ \A k \in 1..Len(issue.repos) : issue.repos[k].worktreePath \in dirs' ]_vars

\* two calls for the same id: one has raised at its first worktree, the
\* other has created its worktree, is still in its loop, and its issue
\* directory and worktree directory are gone
C33_Witness ==
  \E c, d \in Flows :
    /\ c # d /\ calls[c].issueId = calls[d].issueId
    /\ calls[c].op = "createIssue" /\ calls[c].pc = "raised"
    /\ calls[c].createdWorktrees = << >>
    /\ InLoop(d) /\ Len(calls[d].createdWorktrees) = 1
    /\ calls[d].issueDir \notin dirs
    /\ calls[d].createdWorktrees[1] \notin dirs
    /\ calls[d].createdWorktrees[1] \in worktrees["/r/web"]

\* ------------------------------------- orphan sweep during a createIssue
\* the cleanup command runs while a createIssue call is under way: its
\* findOrphanedIssues and cleanupOrphanedIssues fall between the awaits of
\* the call
NextSweep ==
  \/ \E c \in Slots, id \in CreateIds : StartCreateIssue(c, id)
  \/ \E c \in Slots : CreateStep(c)
  \/ FindOrphanedIssues
  \/ CleanupOrphanedIssues

SpecSweep == InitStore /\ [][NextSweep]_vars

\* C34: while a createIssue call is in progress (its directory made, its
\* record not yet written), a findOrphanedIssues that runs between its
\* awaits does not report its issue id, and a cleanupOrphanedIssues that
\* runs between its awaits leaves its issue directory on disk.
C34_InProgressNotOrphan ==
  [][ \A c \in Slots :
        (calls[c].op = "createIssue" /\ Running(c) /\ calls'[c] = calls[c]) =>
          /\ (found' # found => calls[c].issueId \notin found'[1])
          /\ (calls[c].issueDir \in dirs => calls[c].issueDir \in dirs') ]_vars

\* the call is in its loop, a cleanup has counted and removed one orphan,
\* and the directory of the issue being created is gone
C34_Witness ==
  \E c \in Slots :
    /\ InLoop(c)
    /\ found = Some({ calls[c].issueId })
    /\ cleaned = Some(1)
    /\ calls[c].issueDir \notin dirs

\* ------------------------------------------ writes over an unreadable file
\* the state file exists and cannot be parsed, or parses to something
\* without an issues list
DegradedFiles == { GarbageFile, NoListFile }

InitDegraded ==
  \E f \in DegradedFiles : InitWith(f, << Repo("web", "/r/web") >>, EmptyDisk)

SpecDegraded == InitDegraded /\ [][NextStore]_vars

\* C35: when the state file exists but is unparsable or has no issues list,
\* saveIssue writes a file that holds the saved issue only and deleteIssue
\* writes a file that holds the empty list: the previous content is
\* discarded.
C35_DegradedWrite ==
  [][ (file \in DegradedFiles /\ st' # st) =>
        /\ st'.op = "saveIssue" => file' = saveIssuesFile(<< st'.issue[1] >>)
        /\ st'.op = "deleteIssue" => file' = saveIssuesFile(<< >>) ]_vars

\* the first call on the unreadable file was a saveIssue: the file is now a
\* list of that one issue
C35_Witness ==
  /\ st.op = "saveIssue" /\ st.wrote
  /\ clock = 1 /\ found = None
  /\ file = saveIssuesFile(<< st.issue[1] >>)
  /\ file.kind = "issues" /\ Len(file.issues) = 1

\* ------------------------------------- orphan sweep and ids with separators
\* issue ids createIssue is called with: a plain one, and one that names the
\* organisation of the repository in front of a separator
SeparatorIds == { "A", "acme/A" }

NextSeparators ==
  \/ \E c \in Slots, id \in SeparatorIds : StartCreateIssue(c, id)
  \/ \E c \in Slots : CreateStep(c)
  \/ FindOrphanedIssues
  \/ CleanupOrphanedIssues

SpecSeparators == InitStore /\ [][NextSeparators]_vars

\* C36: cleanupOrphanedIssues removes no directory that is, or contains, the
\* workspaceDir of an issue of the state file, whatever id createIssue was
\* called with.
C36_CleanupSparesStored ==
  [][ CleanupOrphanedIssues =>
        \A k \in 1..Len(StoredIssues) :
          \A d \in dirs \ dirs' : ~IsPrefix(d, StoredIssues[k].workspaceDir) ]_vars

\* the issue acme/A is in the state file, a cleanup has removed one
\* directory as an orphan, and the workspace directory of the issue is gone
C36_Witness ==
  /\ \E k \in 1..Len(StoredIssues) :
       /\ StoredIssues[k].id = "acme/A"
       /\ StoredIssues[k].workspaceDir \notin dirs
  /\ \A c \in Slots : calls[c].pc = "returned" /\ calls[c].issueId = "acme/A"
  /\ found = Some({ "acme" })
  /\ cleaned = Some(1)

\* --------------------------------------------- the reach of a call's removal
\* issue ids the input box accepts (it rejects blank strings only): a plain
\* one, and the two that path.join resolves to the directories above
FrameIds == { "A", ".", ".." }

\* the issue B is stored and its workspace directory is on disk
InitFrame ==
  InitWith(saveIssuesFile(<< CanonicalIssue("B", None, "active", 1, 1) >>),
           << Repo("web", "/r/web") >>, DiskOf([ d |-> { "B" }, f |-> {} ]))

NextFrame ==
  \/ \E c \in Slots, id \in FrameIds : StartCreateIssue(c, id)
  \/ \E c \in Slots : CreateStep(c)
  \/ \E c \in Slots, id \in IssueIds, deleteBranches \in BOOLEAN :
       StartDeleteIssue(c, id, deleteBranches)
  \/ \E c \in Slots : DeleteRemoveWorktree(c)
  \/ \E c \in Slots : DeleteBranch(c)

SpecFrame == InitFrame /\ [][NextFrame]_vars

\* d lies strictly under the workspace directory of the project
UnderProject(d) ==
  /\ Len(d) > Len(ProjectWorkspaceDir(ProjectId))
  /\ IsPrefix(ProjectWorkspaceDir(ProjectId), d)

\* C37: a step of deleteIssue(X) or of createIssue(X) leaves the state
\* records of every other issue as they were, and a directory it removes
\* lies strictly under the project's workspace directory and neither is nor
\* contains the workspace directory of another stored issue.
C37_OnlyOwnIssue ==
  [][ \A c \in Slots :
        calls'[c] # calls[c] =>
          /\ \A id \in IssueIds \ { calls'[c].issueId } :
               PersistedRecords(file', id) = PersistedRecords(file, id)
          /\ \A d \in dirs \ dirs' :
               /\ UnderProject(d)
               /\ \A k \in 1..Len(StoredIssues) :
                    StoredIssues[k].id # calls'[c].issueId =>
                      ~IsPrefix(d, StoredIssues[k].workspaceDir) ]_vars

\* createIssue("..") has raised: the workspace root is gone, and with it the
\* workspace directory of the stored issue B
C37_Witness ==
  \E c \in Slots :
    /\ calls[c].op = "createIssue" /\ calls[c].pc = "raised"
    /\ calls[c].issueId = ".."
    /\ calls[c].issueDir = WorkspaceRoot
    /\ WorkspaceRoot \notin dirs
    /\ IdsOf(StoredIssues) = { "B" }
    /\ StoredIssues[1].workspaceDir \notin dirs

\* C31: when createIssue has raised after a write that follows the loop
\* threw (descriptor, context note or state record), a worktree had been
\* created for each of the N repositories, removeWorktree has been attempted
\* for each of them, the issue directory is gone, and the error raised is
\* the error of the write.
C31_TailFailureRollsBack ==
  \A c \in Slots :
    LET call == calls[c]
    IN  call.op = "createIssue" /\ call.pc = "raised"
          /\ call.failedAt = Len(call.repositories) + 1 =>
            /\ Len(call.createdWorktrees) = Len(call.repositories)
            /\ \A j \in 1..Len(call.createdWorktrees) :
                 Attempted(call, "removeWorktree", call.createdWorktrees[j])
            /\ call.issueDir \notin dirs
            /\ call.error = "WriteError"

\* a write after the loop threw, the worktree of the only repository had
\* been created, and the rollback has ended without an attempt to remove it
C31_Witness ==
  \E c \in Slots :
    LET call == calls[c]
    IN  /\ call.op = "createIssue" /\ call.pc = "raised"
        /\ Len(call.repositories) = 1 /\ call.failedAt = 2
        /\ Len(call.createdWorktrees) = 1
        /\ ~Attempted(call, "removeWorktree", call.createdWorktrees[1])
        /\ call.createdWorktrees[1] \in worktrees[call.repositories[1].path]
        /\ call.issueDir \notin dirs

====
